---------------------------- MODULE Spec2Model ----------------------------
(***************************************************************************)
(* Model of the shared logic layer of tool-credit-risk-modelling and of    *)
(* the API services that call it:                                          *)
(*   shared/logic/preprocessing.py  categorical encoding and decoding,     *)
(*                                  undersampling, one-hot expansion       *)
(*   shared/logic/threshold.py      Youden's J threshold optimisation      *)
(*   shared/logic/evaluation.py     confusion matrix, confidence, metrics  *)
(*   shared/logic/feature_selection.py  the feature-selection methods      *)
(*   apps/api/services              the dispatch of a feature-selection    *)
(*                                  request, the API's one-hot expansion   *)
(* The functions are pure.  Each specification draws the arguments of a    *)
(* group of functions in its initial states and its actions apply the      *)
(* functions to them.  The metrics are computed in IEEE 754 binary64       *)
(* floats, rounded to the nearest even as the code's arithmetic is.        *)
(* Probabilities, thresholds and codes are floats the code compares or     *)
(* truncates and never computes with: they are exact rationals, and a      *)
(* denominator of 0 stands for a non-finite float.                         *)
(***************************************************************************)
EXTENDS Integers, Sequences, FiniteSets, TLC

VARIABLES
    pc,          \* position of the caller: which call comes next
    field,       \* preprocessing: the categorical field being processed
    values,      \* preprocessing: argument of encode_<field>
    encoded,     \* preprocessing: outcome of encode_<field>
    codes,       \* preprocessing: argument of decode_<field>; information
                 \* value: the values of the feature
    decoded,     \* preprocessing: outcome of decode_<field>
    y_true,      \* threshold / evaluation / information value: true labels
    y_proba,     \* threshold: predicted probabilities
    threshold,   \* threshold: argument of evaluate_threshold
    optimal,     \* threshold: outcome of find_optimal_threshold
    evaluated,   \* threshold: outcome of evaluate_threshold
    y_pred,      \* evaluation: predicted labels
    confusion,   \* evaluation: outcome of calculate_confusion_matrix
    confidence,  \* evaluation: outcome of calculate_model_confidence
    request,     \* the arguments of a call of the other functions
    result,      \* outcome of that call
    again,       \* outcome of a second call, or of the call of the
                 \* function compared with
    tie_order,   \* feature selection: order np.argsort leaves equal keys in,
                 \* given as an order of all the features
    np_random,   \* feature selection: state of the global generator
    heap,        \* Boruta loop: the arrays in memory, by address
    frame        \* Boruta loop: the local variables of the running call

vars == <<pc, field, values, encoded, codes, decoded, y_true, y_proba,
          threshold, optimal, evaluated, y_pred, confusion, confidence,
          request, result, again, tie_order, np_random, heap, frame>>

---------------------------------------------------------------------------
(* Bounds of the model *)

\* longest list of category values handed to an encode function
MaxValues == 3
\* longest list of numbers handed directly to a decode function
MaxCodes == 2
\* longest label / probability array drawn in any order
MaxLen == 3
\* longest label / probability array drawn in descending order of
\* probability
MaxSortedLen == 6
\* probabilities are drawn from the grid 0/ProbDen .. ProbDen/ProbDen
ProbDen == 3
\* longest array of a pair of arrays of different lengths
MaxMismatchLen == 2
\* longest label array handed to calculate_confusion_matrix
MaxSamples == 4
\* most features of a feature-selection request
MaxFeatures == 3
\* random generators are the streams 0..MaxStream
MaxStream == 1

---------------------------------------------------------------------------
(* Outcomes of a call: a returned value or a raised exception *)

NoResult == [status |-> "none"]
Ok(v) == [status |-> "ok", value |-> v]
Raise(e) == [status |-> "raised", error |-> e]

SeqsUpTo(S, n) == UNION {[1..k -> S] : k \in 0..n}
SeqsOfLen(S, lo, hi) == UNION {[1..k -> S] : k \in lo..hi}

---------------------------------------------------------------------------
(* Exact rationals: the floats that are compared and never computed with *)

RECURSIVE GCD(_, _)
GCD(a, b) == IF b = 0 THEN a ELSE GCD(b, a % b)

Abs(a) == IF a < 0 THEN -a ELSE a

\* the rational n/d in lowest terms, d > 0
Sign(a) == IF a < 0 THEN -1 ELSE IF a = 0 THEN 0 ELSE 1

\* the rational n/d in lowest terms, d > 0; n/0 is inf, -inf or nan
Rat(n, d) ==
    IF d = 0 THEN [n |-> Sign(n), d |-> 0]
    ELSE LET s == IF d < 0 THEN -1 ELSE 1
             g == GCD(Abs(n), Abs(d))
         IN  [n |-> (s * n) \div g, d |-> (s * d) \div g]

Zero == [n |-> 0, d |-> 1]
One == [n |-> 1, d |-> 1]
Half == [n |-> 1, d |-> 2]
Inf == [n |-> 1, d |-> 0]
NaN == [n |-> 0, d |-> 0]

IsFinite(x) == x.d # 0

\* comparisons; every comparison with nan is false
RLe(x, y) ==
    IF x = NaN \/ y = NaN THEN FALSE
    ELSE IF x.d = 0 /\ y.d = 0 THEN x.n <= y.n
    ELSE x.n * y.d <= y.n * x.d
RLt(x, y) == RLe(x, y) /\ x # y
RGe(x, y) == RLe(y, x)
RGt(x, y) == RLt(y, x)

\* int(val): truncation toward zero
PyInt(x) == IF x.n >= 0 THEN x.n \div x.d ELSE -((-x.n) \div x.d)

---------------------------------------------------------------------------
(* Natural numbers of any size, for the significands of binary64 floats:   *)
(* sequences of limbs of LimbBits bits, least significant limb first, the  *)
(* last limb not 0; <<>> is 0.                                             *)

LimbBits == 14
LimbBase == 2^LimbBits

Limb(a, i) == IF i \in DOMAIN a THEN a[i] ELSE 0

RECURSIVE BNorm(_)
BNorm(a) ==
    IF a = <<>> \/ a[Len(a)] # 0 THEN a
    ELSE BNorm(SubSeq(a, 1, Len(a) - 1))

RECURSIVE BFromInt(_)
BFromInt(n) ==
    IF n = 0 THEN <<>> ELSE <<n % LimbBase>> \o BFromInt(n \div LimbBase)

RECURSIVE AddLimbs(_, _, _, _)
AddLimbs(a, b, i, carry) ==
    IF i > Len(a) /\ i > Len(b)
    THEN IF carry = 0 THEN <<>> ELSE <<carry>>
    ELSE LET s == Limb(a, i) + Limb(b, i) + carry
         IN  <<s % LimbBase>> \o AddLimbs(a, b, i + 1, s \div LimbBase)
BAdd(a, b) == AddLimbs(a, b, 1, 0)

\* a - b for a >= b
RECURSIVE SubLimbs(_, _, _, _)
SubLimbs(a, b, i, borrow) ==
    IF i > Len(a) THEN <<>>
    ELSE LET s == LimbBase + Limb(a, i) - Limb(b, i) - borrow
         IN  <<s % LimbBase>>
                 \o SubLimbs(a, b, i + 1, IF s < LimbBase THEN 1 ELSE 0)
BSub(a, b) == BNorm(SubLimbs(a, b, 1, 0))

\* -1, 0 or 1 as a < b, a = b or a > b
RECURSIVE CmpLimbs(_, _, _)
CmpLimbs(a, b, i) ==
    IF i = 0 THEN 0
    ELSE IF a[i] # b[i] THEN (IF a[i] < b[i] THEN -1 ELSE 1)
    ELSE CmpLimbs(a, b, i - 1)
BCmp(a, b) ==
    IF Len(a) # Len(b) THEN (IF Len(a) < Len(b) THEN -1 ELSE 1)
    ELSE CmpLimbs(a, b, Len(a))

\* a * k + carry for a limb k
RECURSIVE MulLimbs(_, _, _, _)
MulLimbs(a, k, i, carry) ==
    IF i > Len(a) THEN (IF carry = 0 THEN <<>> ELSE <<carry>>)
    ELSE LET s == a[i] * k + carry
         IN  <<s % LimbBase>> \o MulLimbs(a, k, i + 1, s \div LimbBase)
BMulSmall(a, k) == BNorm(MulLimbs(a, k, 1, 0))

RECURSIVE MulAcc(_, _, _, _)
MulAcc(a, b, i, acc) ==
    IF i > Len(b) THEN acc
    ELSE MulAcc(a, b, i + 1,
                BAdd(acc, [j \in 1..(i - 1) |-> 0] \o MulLimbs(a, b[i], 1, 0)))
BMul(a, b) == BNorm(MulAcc(a, b, 1, <<>>))

\* a * 2^k
BShl(a, k) ==
    LET q == k \div LimbBits
        r == k % LimbBits
    IN  BNorm([i \in 1..q |-> 0]
              \o [i \in 1..(Len(a) + 1) |->
                    ((Limb(a, i) * 2^r) % LimbBase)
                        + (Limb(a, i - 1) \div 2^(LimbBits - r))])

\* a \div 2^k
BShr(a, k) ==
    LET q == k \div LimbBits
        r == k % LimbBits
    IN  IF Len(a) <= q THEN <<>>
        ELSE BNorm([i \in 1..(Len(a) - q) |->
                      (Limb(a, i + q) \div 2^r)
                          + ((Limb(a, i + q + 1) % 2^r) * 2^(LimbBits - r))])

RECURSIVE SmallBitLen(_)
SmallBitLen(n) == IF n = 0 THEN 0 ELSE 1 + SmallBitLen(n \div 2)
\* the number of bits of a
BitLen(a) ==
    IF a = <<>> THEN 0
    ELSE (Len(a) - 1) * LimbBits + SmallBitLen(a[Len(a)])

\* the largest limb q with q * b <= r, found bit by bit from q = 0
RECURSIVE QuotientLimb(_, _, _, _)
QuotientLimb(r, b, q, bit) ==
    IF bit < 0 THEN q
    ELSE IF BCmp(BMulSmall(b, q + 2^bit), r) <= 0
         THEN QuotientLimb(r, b, q + 2^bit, bit - 1)
         ELSE QuotientLimb(r, b, q, bit - 1)

\* long division of a by b # 0, limb by limb from the top limb i down;
\* q and r are the quotient and the remainder of the limbs above i
RECURSIVE DivLimbs(_, _, _, _, _)
DivLimbs(a, b, i, q, r) ==
    IF i = 0 THEN [q |-> BNorm(q), r |-> r]
    ELSE LET r2 == BNorm(<<a[i]>> \o r)
             d == QuotientLimb(r2, b, 0, LimbBits - 1)
         IN  DivLimbs(a, b, i - 1, <<d>> \o q, BSub(r2, BMulSmall(b, d)))
BDivMod(a, b) == DivLimbs(a, b, Len(a), <<>>, <<>>)

---------------------------------------------------------------------------
(* IEEE 754 binary64 arithmetic, round to nearest even, for the numbers    *)
(* the metrics are computed in.  A finite float is sign * mant * 2^exp     *)
(* with mant of exactly MantBits bits, or mant = 0; sign = 0 marks nan.    *)

MantBits == 53

FZero == [sign |-> 1, mant |-> <<>>, exp |-> 0]
FNaN == [sign |-> 0, mant |-> <<>>, exp |-> 0]
FIsFinite(x) == x.sign # 0

\* the float nearest to sign * m * 2^e, or to a number just above it in
\* magnitude when sticky (a division that left a remainder)
Round(sign, m, e, sticky) ==
    LET len == BitLen(m)
        d == len - MantBits
        q == BShr(m, d)
        c == BCmp(BSub(m, BShl(q, d)), BShl(<<1>>, d - 1))
        up == c > 0 \/ (c = 0 /\ (sticky \/ (q[1] % 2) = 1))
        q1 == IF up THEN BAdd(q, <<1>>) ELSE q
    IN  IF m = <<>> THEN FZero
        ELSE IF d <= 0
        THEN [sign |-> sign, mant |-> BShl(m, -d), exp |-> e + d]
        ELSE IF BitLen(q1) > MantBits
        THEN [sign |-> sign, mant |-> BShr(q1, 1), exp |-> e + d + 1]
        ELSE [sign |-> sign, mant |-> q1, exp |-> e + d]

\* float(n) for an integer n
FromInt(n) ==
    Round(IF n < 0 THEN -1 ELSE 1, BFromInt(IF n < 0 THEN -n ELSE n), 0, FALSE)

FOne == FromInt(1)
FTwo == FromInt(2)

\* -x; the sign of a zero is not kept (0.0 and -0.0 compare equal)
FNeg(x) == IF x.mant = <<>> THEN x ELSE [x EXCEPT !.sign = -x.sign]

\* x + y
FAdd(x, y) ==
    IF x.sign = 0 \/ y.sign = 0 THEN FNaN
    ELSE IF x.mant = <<>> THEN y
    ELSE IF y.mant = <<>> THEN x
    ELSE LET e == IF x.exp < y.exp THEN x.exp ELSE y.exp
             a == BShl(x.mant, x.exp - e)
             b == BShl(y.mant, y.exp - e)
             c == BCmp(a, b)
         IN  IF x.sign = y.sign THEN Round(x.sign, BAdd(a, b), e, FALSE)
             ELSE IF c = 0 THEN FZero
             ELSE IF c > 0 THEN Round(x.sign, BSub(a, b), e, FALSE)
             ELSE Round(y.sign, BSub(b, a), e, FALSE)

\* x - y
FSub(x, y) == FAdd(x, FNeg(y))

\* x * y
FMul(x, y) ==
    IF x.sign = 0 \/ y.sign = 0 THEN FNaN
    ELSE Round(x.sign * y.sign, BMul(x.mant, y.mant), x.exp + y.exp, FALSE)

\* x / y; nan when y is 0
FDiv(x, y) ==
    IF x.sign = 0 \/ y.sign = 0 \/ y.mant = <<>> THEN FNaN
    ELSE LET d == BDivMod(BShl(x.mant, MantBits + 2), y.mant)
         IN  Round(x.sign * y.sign, d.q, x.exp - y.exp - (MantBits + 2),
                   d.r # <<>>)

\* -1, 0 or 1 as x < y, x = y or x > y, for finite x and y
FCmp(x, y) ==
    LET sx == IF x.mant = <<>> THEN 0 ELSE x.sign
        sy == IF y.mant = <<>> THEN 0 ELSE y.sign
    IN  IF sx # sy THEN (IF sx < sy THEN -1 ELSE 1)
        ELSE IF sx = 0 THEN 0
        ELSE IF x.exp # y.exp THEN (IF x.exp < y.exp THEN -sx ELSE sx)
        ELSE sx * BCmp(x.mant, y.mant)

\* comparisons; every comparison with nan is false
FLe(x, y) == x.sign # 0 /\ y.sign # 0 /\ FCmp(x, y) <= 0
FLt(x, y) == x.sign # 0 /\ y.sign # 0 /\ FCmp(x, y) < 0
FGe(x, y) == FLe(y, x)
FGt(x, y) == FLt(y, x)

\* x / y for integers x and y
FDivInt(x, y) == FDiv(FromInt(x), FromInt(y))

---------------------------------------------------------------------------
(* shared/constants.py: valid categorical values *)

VALID_HOME_OWNERSHIP == <<"RENT", "OWN", "MORTGAGE", "OTHER">>
VALID_LOAN_INTENT ==
    <<"EDUCATION", "MEDICAL", "VENTURE", "PERSONAL", "DEBTCONSOLIDATION",
      "HOMEIMPROVEMENT">>
VALID_LOAN_GRADE == <<"A", "B", "C", "D", "E", "F", "G">>
VALID_DEFAULT_ON_FILE == <<"Y", "N">>

Elems(s) == {s[i] : i \in DOMAIN s}

---------------------------------------------------------------------------
(* shared/logic/preprocessing.py *)

\* A dict literal is the sequence of its <<key, value>> items in insertion
\* order.
HOME_OWNERSHIP_MAP_Dup ==
    << <<"RENT", 0>>, <<"OWN", 1>>, <<"MORTGAGE", 2>>, <<"OTHER", 2>> >>
HOME_OWNERSHIP_MAP ==
    << <<"RENT", 0>>, <<"OWN", 1>>, <<"MORTGAGE", 2>>, <<"OTHER", 3>> >>

LOAN_INTENT_MAP ==
    << <<"EDUCATION", 0>>, <<"MEDICAL", 1>>, <<"VENTURE", 2>>,
       <<"PERSONAL", 3>>, <<"DEBTCONSOLIDATION", 4>>,
       <<"HOMEIMPROVEMENT", 5>> >>

LOAN_GRADE_MAP ==
    << <<"A", 0>>, <<"B", 1>>, <<"C", 2>>, <<"D", 3>>, <<"E", 4>>,
       <<"F", 5>>, <<"G", 6>> >>

DEFAULT_ON_FILE_MAP == << <<"N", 0>>, <<"Y", 1>> >>

\* key in d
DictHas(d, k) == \E i \in DOMAIN d : d[i][1] = k
\* d[key]; a later item with the same key replaces an earlier one
DictGet(d, k) ==
    LET at == {i \in DOMAIN d : d[i][1] = k}
        last == CHOOSE i \in at : \A j \in at : j <= i
    IN  d[last][2]
\* {v: k for k, v in d.items()}
ReverseMap(d) == [i \in DOMAIN d |-> <<d[i][2], d[i][1]>>]

\* a mutant of the loop: an unknown value is skipped instead of rejected
RECURSIVE EncodeLoop_Skip(_, _, _, _, _)
EncodeLoop_Skip(map, name, vals, i, acc) ==
    IF i > Len(vals) THEN Ok(acc)
    ELSE IF ~DictHas(map, vals[i])
         THEN EncodeLoop_Skip(map, name, vals, i + 1, acc)
         ELSE EncodeLoop_Skip(map, name, vals, i + 1,
                              Append(acc, DictGet(map, vals[i])))

\* The loop shared by the four encode functions:
\*   for val in values: if val not in MAP: raise ValueError(...)
\*                      encoded.append(MAP[val])
\* acc is the list built so far, i the index of the next value.
RECURSIVE EncodeLoop(_, _, _, _, _)
EncodeLoop(map, name, vals, i, acc) ==
    IF i > Len(vals) THEN Ok(acc)
    ELSE IF ~DictHas(map, vals[i])
         THEN Raise("Unknown " \o name \o " value")
         ELSE EncodeLoop(map, name, vals, i + 1,
                         Append(acc, DictGet(map, vals[i])))

encode_home_ownership(vals) ==
    EncodeLoop(HOME_OWNERSHIP_MAP, "home_ownership", vals, 1, <<>>)
encode_loan_intent(vals) ==
    EncodeLoop(LOAN_INTENT_MAP, "loan_intent", vals, 1, <<>>)
encode_loan_grade(vals) ==
    EncodeLoop(LOAN_GRADE_MAP, "loan_grade", vals, 1, <<>>)
encode_default_on_file(vals) ==
    EncodeLoop(DEFAULT_ON_FILE_MAP, "default_on_file", vals, 1, <<>>)

\* The comprehension shared by the three decode functions:
\*   reverse_map = {v: k for k, v in MAP.items()}
\*   return [reverse_map[int(val)] for val in values]
\* A missing key raises KeyError.
Decode(map, vals) ==
    LET reverse_map == ReverseMap(map)
    IN  IF \E i \in DOMAIN vals : ~DictHas(reverse_map, PyInt(vals[i]))
        THEN Raise("KeyError")
        ELSE Ok([i \in DOMAIN vals |-> DictGet(reverse_map, PyInt(vals[i]))])

decode_home_ownership(vals) == Decode(HOME_OWNERSHIP_MAP, vals)
decode_loan_intent(vals) == Decode(LOAN_INTENT_MAP, vals)
decode_loan_grade(vals) == Decode(LOAN_GRADE_MAP, vals)

---------------------------------------------------------------------------
(* sklearn.metrics.roc_curve, as called by shared/logic/threshold.py *)

\* the numbers of the set S in descending order
RECURSIVE SortDesc(_)
SortDesc(S) ==
    IF S = {} THEN <<>>
    ELSE LET m == CHOOSE x \in S : \A y \in S : RLe(y, x)
         IN  <<m>> \o SortDesc(S \ {m})

\* int(np.sum(mask)): how many positions the mask holds
Count(mask) == Cardinality(mask)

\* second difference of the array a at the inner position k
Diff2(a, k) == a[k + 1] - 2 * a[k] + a[k - 1]

\* the positions roc_curve keeps with drop_intermediate=True: both ends and
\* every position where the second difference of fps or of tps is not zero
KeptPositions(fps, tps) ==
    LET n == Len(fps)
    IN  IF n > 2
        THEN {1, n} \cup {k \in 2..(n - 1) :
                             Diff2(fps, k) # 0 \/ Diff2(tps, k) # 0}
        ELSE 1..n

\* the elements of a at the positions K, in order
RECURSIVE Pick(_, _, _)
Pick(a, K, k) ==
    IF k > Len(a) THEN <<>>
    ELSE (IF k \in K THEN <<a[k]>> ELSE <<>>) \o Pick(a, K, k + 1)

\* the only element of a one-element set.  A value that is used several
\* times is bound as the element of a one-element set, x \in {e}, so that
\* it is computed once.
Only(S) == CHOOSE x \in S : TRUE

\* _binary_clf_curve: one point per distinct score, in descending order,
\* with the true and the false positives counted among the samples scoring
\* at least that much
BinaryClfCurve(y, score, distinct) ==
    [tps |-> [k \in DOMAIN distinct |->
                Count({i \in DOMAIN y : y[i] = 1 /\ RGe(score[i], distinct[k])})],
     fps |-> [k \in DOMAIN distinct |->
                Count({i \in DOMAIN y : y[i] # 1 /\ RGe(score[i], distinct[k])})],
     thresholds |-> distinct]

\* the curve c restricted to the positions K, with the point (0, 0) and the
\* threshold inf put in front
StartAtOrigin(c, K) ==
    [tps |-> <<0>> \o Pick(c.tps, K, 1),
     fps |-> <<0>> \o Pick(c.fps, K, 1),
     thresholds |-> <<Inf>> \o Pick(c.thresholds, K, 1)]

\* the longest array that metrics are computed of
MaxCount == IF MaxLen > MaxSortedLen THEN MaxLen ELSE MaxSortedLen

\* the function f itself, as the table of its values: each value is
\* computed once
Tabulated(f) == f @@ <<>>

\* x / y for the counts x <= y of an array of at most MaxCount samples
Rate ==
    Tabulated([c \in {d \in (0..MaxCount) \X (1..MaxCount) : d[1] <= d[2]} |->
                    FDivInt(c[1], c[2])])

\* the values a rate of such an array takes
RateValues == {Rate[c] : c \in DOMAIN Rate} \cup {FNaN}

\* counts divided by the last count; nan when that is not positive
Rates(counts) ==
    [k \in DOMAIN counts |->
        IF counts[Len(counts)] <= 0 THEN FNaN
        ELSE Rate[<<counts[k], counts[Len(counts)]>>]]

\* roc_curve(y_true, y_score) with drop_intermediate=True
roc_curve(y, score) ==
    Only(UNION UNION {{{[fpr |-> Rates(d.fps), tpr |-> Rates(d.tps),
                         thresholds |-> d.thresholds]
                          : d \in {StartAtOrigin(c, KeptPositions(c.fps, c.tps))}}
                          : c \in {BinaryClfCurve(y, score, distinct)}}
                          : distinct \in {SortDesc(Elems(score))}})

---------------------------------------------------------------------------
(* shared/schemas/metrics.py *)

InRange(x, lo, hi) == FLe(lo, x) /\ FLe(x, hi)

FMinusOne == FromInt(-1)

\* ThresholdResult(...): the field constraints (ge, le) are validated on
\* construction
ThresholdResult(t, sens, spec, j, prec, f1) ==
    IF /\ RLe(Zero, t) /\ RLe(t, One) /\ InRange(sens, FZero, FOne)
       /\ InRange(spec, FZero, FOne) /\ InRange(j, FMinusOne, FOne)
       /\ InRange(prec, FZero, FOne) /\ InRange(f1, FZero, FOne)
    THEN Ok([threshold |-> t, sensitivity |-> sens, specificity |-> spec,
             youden_j |-> j, precision |-> prec, f1_score |-> f1])
    ELSE Raise("ValidationError")

---------------------------------------------------------------------------
(* shared/logic/threshold.py *)

\* a mutant of Predict: > instead of >=
PredictStrict(p, t) == IF RGt(p, t) THEN 1 ELSE 0
\* (y_proba >= threshold).astype(int), element i
Predict(p, t) == IF RGe(p, t) THEN 1 ELSE 0

\* a mutant of ArgMax: the first position of the minimum
ArgMin(a) ==
    CHOOSE k \in DOMAIN a :
        /\ \A j \in DOMAIN a : FLe(a[k], a[j])
        /\ \A j \in DOMAIN a : j < k => a[j] # a[k]
\* int(np.argmax(a)): the first position of the maximum, the first nan if
\* there is one
ArgMax(a) ==
    IF \E k \in DOMAIN a : a[k] = FNaN
    THEN CHOOSE k \in DOMAIN a :
            a[k] = FNaN /\ \A j \in DOMAIN a : j < k => a[j] # FNaN
    ELSE CHOOSE k \in DOMAIN a :
            /\ \A j \in DOMAIN a : FLe(a[j], a[k])
            /\ \A j \in DOMAIN a : j < k => a[j] # a[k]

\* x / y if y > 0 else 0.0, for counts x and y
RatioOrZero(x, y) == IF y > 0 THEN Rate[<<x, y>>] ELSE FZero

\* 2 * (precision * recall) / (precision + recall) if that sum > 0 else 0.0
F1(prec, rec) ==
    IF FGt(FAdd(prec, rec), FZero)
    THEN FDiv(FMul(FTwo, FMul(prec, rec)), FAdd(prec, rec))
    ELSE FZero

\* a mutant of YoudenJ: sensitivity - specificity
YoudenJ_Difference(sens, spec) == FSub(sens, spec)
\* sensitivity + specificity - 1.0
YoudenJ(sens, spec) == FSub(FAdd(sens, spec), FOne)

\* the functions of two rates, over the values of the rates
\* x - y
Minus == Tabulated([x \in RateValues, y \in RateValues |-> FSub(x, y)])
YoudenJOf ==
    Tabulated([sens \in RateValues, spec \in RateValues |->
                    YoudenJ(sens, spec)])
F1Of ==
    Tabulated([prec \in RateValues, rec \in RateValues |-> F1(prec, rec)])

\* youden_j = tpr - fpr
YoudenCurve(roc) == [k \in DOMAIN roc.tpr |-> Minus[roc.tpr[k], roc.fpr[k]]]

\* find_optimal_threshold from the ROC curve and the index of its maximal
\* J on: the 0.5 fallback, the coercions of non-finite values, precision
\* and F1 at the chosen threshold
OptimalAt(y, p, roc, youden_j, optimal_idx) ==
    LET thr0 == roc.thresholds[optimal_idx]
        optimal_threshold == IF IsFinite(thr0) THEN thr0 ELSE Half
        tpr0 == roc.tpr[optimal_idx]
        fpr0 == roc.fpr[optimal_idx]
        optimal_tpr == IF FIsFinite(tpr0) THEN tpr0 ELSE FZero
        optimal_fpr == IF FIsFinite(fpr0) THEN fpr0 ELSE FZero
        optimal_tnr == Minus[FOne, optimal_fpr]
        j0 == youden_j[optimal_idx]
        optimal_j == IF FIsFinite(j0) THEN j0 ELSE FZero
        tp == Count({i \in DOMAIN y :
                        y[i] = 1 /\ Predict(p[i], optimal_threshold) = 1})
        fp == Count({i \in DOMAIN y :
                        y[i] = 0 /\ Predict(p[i], optimal_threshold) = 1})
        precision == RatioOrZero(tp, tp + fp)
        f1_score == F1Of[precision, optimal_tpr]
    IN  ThresholdResult(optimal_threshold, optimal_tpr, optimal_tnr,
                        optimal_j, precision, f1_score)

\* the body of find_optimal_threshold after its argument checks
OptimalFromRoc(y, p) ==
    Only(UNION UNION {{{OptimalAt(y, p, roc, youden_j, optimal_idx)
                          : optimal_idx \in {ArgMax(youden_j)}}
                          : youden_j \in {YoudenCurve(roc)}}
                          : roc \in {roc_curve(y, p)}})

\* a mutant of find_optimal_threshold: the length test comes first
find_optimal_threshold_MismatchFirst(y, p) ==
    IF Len(y) # Len(p) THEN Raise("Array length mismatch")
    ELSE IF Len(y) = 0 \/ Len(p) = 0
    THEN Raise("Input arrays cannot be empty")
    ELSE IF Cardinality(Elems(y)) = 1
    THEN Raise("Cannot calculate ROC curve with only one class present")
    ELSE OptimalFromRoc(y, p)

find_optimal_threshold(y, p) ==
    IF Len(y) = 0 \/ Len(p) = 0
    THEN Raise("Input arrays cannot be empty")
    ELSE IF Len(y) # Len(p) THEN Raise("Array length mismatch")
    ELSE IF Cardinality(Elems(y)) = 1
    THEN Raise("Cannot calculate ROC curve with only one class present")
    ELSE OptimalFromRoc(y, p)

\* a mutant of ThresholdInvalid: only the upper end is tested
ThresholdInvalid_UpperOnly(t) == ~RLe(t, One)
\* the threshold test of evaluate_threshold: not 0 <= threshold <= 1
ThresholdInvalid(t) == ~(RLe(Zero, t) /\ RLe(t, One))

evaluate_threshold(y, p, t) ==
    IF ThresholdInvalid(t) THEN Raise("Threshold must be in [0, 1]")
    ELSE IF Len(y) # Len(p) THEN Raise("Array length mismatch")
    ELSE
    LET tp == Count({i \in DOMAIN y : y[i] = 1 /\ Predict(p[i], t) = 1})
        tn == Count({i \in DOMAIN y : y[i] = 0 /\ Predict(p[i], t) = 0})
        fp == Count({i \in DOMAIN y : y[i] = 0 /\ Predict(p[i], t) = 1})
        fn == Count({i \in DOMAIN y : y[i] = 1 /\ Predict(p[i], t) = 0})
        sensitivity == RatioOrZero(tp, tp + fn)
        specificity == RatioOrZero(tn, tn + fp)
        precision == RatioOrZero(tp, tp + fp)
        youden_j == YoudenJOf[sensitivity, specificity]
        f1 == F1Of[precision, sensitivity]
    IN  ThresholdResult(t, sensitivity, specificity, youden_j, precision, f1)

---------------------------------------------------------------------------
(* shared/logic/evaluation.py *)

\* the integers of the set S in ascending order
RECURSIVE SortAsc(_)
SortAsc(S) ==
    IF S = {} THEN <<>>
    ELSE LET m == CHOOSE x \in S : \A y \in S : x <= y
         IN  <<m>> \o SortAsc(S \ {m})

\* sklearn.metrics.confusion_matrix(y_true, y_pred): arrays of different
\* lengths are rejected; the classes are the sorted distinct values of both
\* arrays; cell [i][j] counts the samples of true class i predicted as j.
confusion_matrix(yt, yp) ==
    IF Len(yt) # Len(yp)
    THEN Raise("Found input variables with inconsistent numbers of samples")
    ELSE LET classes == SortAsc(Elems(yt) \cup Elems(yp))
         IN  Ok([i \in DOMAIN classes |-> [j \in DOMAIN classes |->
                    Count({k \in DOMAIN yt : yt[k] = classes[i]
                                                /\ yp[k] = classes[j]})]])

\* a mutant of Ravel: the matrix is read column by column
Ravel_ColumnMajor(cm) == <<cm[1][1], cm[2][1], cm[1][2], cm[2][2]>>
\* cm.ravel() of a 2x2 matrix: row by row
Ravel(cm) == <<cm[1][1], cm[1][2], cm[2][1], cm[2][2]>>

\* ConfusionMatrix(...): the four counts are validated to be >= 0
ConfusionMatrix(matrix, tn, fp, fn, tp) ==
    IF tn >= 0 /\ fp >= 0 /\ fn >= 0 /\ tp >= 0
    THEN Ok([matrix |-> matrix, true_negatives |-> tn, false_positives |-> fp,
             false_negatives |-> fn, true_positives |-> tp])
    ELSE Raise("ValidationError")

calculate_confusion_matrix(yt, yp) ==
    LET r == confusion_matrix(yt, yp)
    IN  IF r.status # "ok" THEN r
        ELSE LET cm == r.value
             IN  IF ~(Len(cm) = 2 /\ \A i \in DOMAIN cm : Len(cm[i]) = 2)
                 THEN Raise("Expected 2x2 confusion matrix")
                 ELSE LET c == Ravel(cm)
                      IN  ConfusionMatrix(cm, c[1], c[2], c[3], c[4])

\* float(x) for a rational x: the float nearest to it; nan for nan
\* (infinities are not handed in)
ToFloat(x) == IF x.d = 0 THEN FNaN ELSE FDivInt(x.n, x.d)

\* np.abs(x)
FAbs(x) == IF x.sign = -1 THEN FNeg(x) ELSE x

\* a mutant of PyMax: the minimum
PyMax_Min(a, b) == IF FLt(b, a) THEN b ELSE a
\* max(a, b) of Python: b when b > a, else a
PyMax(a, b) == IF FGt(b, a) THEN b ELSE a

\* a mutant of Distance: the signed difference
Distance_Signed(p, t) == FSub(p, t)
\* distances = np.abs(y_proba - threshold), one element
Distance(p, t) == FAbs(FSub(p, t))

\* max_distance = max(threshold, 1 - threshold)
MaxDistance(t) == PyMax(t, FSub(FOne, t))

\* confidence = distances / max_distance, one element
Confidence(p, t) == FDiv(Distance(p, t), MaxDistance(t))

\* the probabilities a model hands in: the grid of step 1 / ProbDen
Probabilities == {Rat(k, ProbDen) : k \in 0..ProbDen}

\* the value None of an Optional field
None == <<>>

\* calculate_roc_curve(y_true, y_proba): sklearn's roc_curve rejects arrays
\* of different lengths and arrays without a sample; ROCCurveData puts no
\* constraint on its three lists
calculate_roc_curve(y, p) ==
    IF Len(y) # Len(p)
    THEN Raise("Found input variables with inconsistent numbers of samples")
    ELSE IF Len(y) = 0 THEN Raise("roc_curve: no samples")
    ELSE Ok(roc_curve(y, p))

\* twice the number of (positive, negative) pairs the scores order
\* correctly, a tie counting once
ConcordantTwice(y, p) ==
    LET pairs == {c \in (DOMAIN y) \X (DOMAIN y) : y[c[1]] = 1 /\ y[c[2]] = 0}
    IN  2 * Count({c \in pairs : RGt(p[c[1]], p[c[2]])})
            + Count({c \in pairs : p[c[1]] = p[c[2]]})

\* x / y for twice the numbers of pairs of at most MaxLen samples
PairRate ==
    Tabulated([c \in {d \in (0..(2 * MaxLen * MaxLen)) \X (1..(2 * MaxLen * MaxLen)) : d[1] <= d[2]} |->
                    FDivInt(c[1], c[2])])

\* float(roc_auc_score(y_true, y_proba)): the area under the ROC curve is
\* the share of correctly ordered (positive, negative) pairs, here the
\* float nearest to it; one class alone is rejected
roc_auc_score(y, p) ==
    IF Cardinality(Elems(y)) # 2
    THEN Raise("Only one class present in y_true")
    ELSE LET pos == Count({i \in DOMAIN y : y[i] = 1})
             neg == Count({i \in DOMAIN y : y[i] = 0})
         IN  Ok(PairRate[<<ConcordantTwice(y, p), 2 * pos * neg>>])

\* a mutant of ThresholdAnalysis: without a threshold, 0.5 is evaluated
ThresholdAnalysis_DefaultHalf(y, p, thr) ==
    IF thr = None THEN evaluate_threshold(y, p, Half)
    ELSE evaluate_threshold(y, p, thr[1])
\* threshold_result of evaluate_model: find_optimal_threshold when
\* threshold is None, else evaluate_threshold
ThresholdAnalysis(y, p, thr) ==
    IF thr = None THEN find_optimal_threshold(y, p)
    ELSE evaluate_threshold(y, p, thr[1])

\* the threshold the predictions are made at
ResolvedThreshold(thr, threshold_result) ==
    IF thr = None THEN threshold_result.threshold ELSE thr[1]

\* the scores within [0, 1] that evaluate_model is handed
UnitScores == {Zero, Rat(1, ProbDen), One}

\* the ten-bin edges np.linspace(0.0, 1.0, 11)[1:-1]: k * step
BinEdge ==
    Tabulated([k \in 1..9 |->
                    Only({FMul(i, step) : i \in {FromInt(k)},
                                          step \in {FDivInt(1, 10)}})])

\* np.searchsorted(bins[1:-1], y_prob), one element: how many edges lie
\* below the probability
BinId ==
    Tabulated([x \in UnitScores |->
                    Count({k \in 1..9 :
                              \E prob \in {ToFloat(x)} : FLt(BinEdge[k], prob)})])

\* the sum of the floats of a list, added in order
RECURSIVE FSum(_, _)
FSum(s, k) ==
    IF k = 0 THEN FZero
    ELSE Only({FAdd(a, b) : a \in {FSum(s, k - 1)}, b \in {ToFloat(s[k])}})

\* bin_sums / bin_total of a bin holding the probabilities s
MeanPredicted ==
    Tabulated([s \in SeqsOfLen(UnitScores, 1, MaxLen) |->
                    Only({FDiv(bin_sum, bin_total) :
                              bin_sum \in {FSum(s, Len(s))},
                              bin_total \in {FromInt(Len(s))}})])

\* the elements of p at the positions K, in order
Members(p, K) == Pick(p, K, 1)

\* sklearn.calibration.calibration_curve(y_true, y_prob, n_bins=10,
\* strategy="uniform"): probabilities outside [0, 1] are rejected; of every
\* bin that is not empty, the share of positives and the mean probability
calibration_curve(y, p) ==
    IF \E i \in DOMAIN p : ~(RLe(Zero, p[i]) /\ RLe(p[i], One))
    THEN Raise("y_prob has values outside [0, 1].")
    ELSE LET bin == [i \in DOMAIN p |-> BinId[p[i]]]
             nonzero == SortAsc({bin[i] : i \in DOMAIN p})
             In(k) == {i \in DOMAIN p : bin[i] = nonzero[k]}
         IN  Ok([prob_true |-> [k \in DOMAIN nonzero |->
                                  Rate[<<Count({i \in In(k) : y[i] = 1}),
                                         Count(In(k))>>]],
                 prob_pred |-> [k \in DOMAIN nonzero |->
                                  MeanPredicted[Members(p, In(k))]]])

\* CalibrationCurve(...): n_bins is validated to be > 0
CalibrationCurve(prob_true, prob_pred, n_bins) ==
    IF n_bins > 0
    THEN Ok([prob_true |-> prob_true, prob_pred |-> prob_pred,
             n_bins |-> n_bins])
    ELSE Raise("ValidationError")

calculate_calibration_curve(y, p, n_bins) ==
    Only({IF r.status # "ok" THEN r
          ELSE CalibrationCurve(r.value.prob_true, r.value.prob_pred, n_bins)
            : r \in {calibration_curve(y, p)}})

\* a mutant of Calibration: a failure is handed on
Calibration_Unguarded(y, p, include_calibration) ==
    IF include_calibration
    THEN Only({IF r.status = "ok" THEN <<r.value>> ELSE r
                 : r \in {calculate_calibration_curve(y, p, 10)}})
    ELSE None
\* calibration of evaluate_model: None unless include_calibration; the
\* errors calculate_calibration_curve raises in the model are ValueErrors,
\* which are caught and leave None
Calibration(y, p, include_calibration) ==
    IF include_calibration
    THEN Only({IF r.status = "ok" THEN <<r.value>> ELSE None
                 : r \in {calculate_calibration_curve(y, p, 10)}})
    ELSE None

\* 2 * tp / (2 * tp + fp + fn) for the counts of at most MaxLen samples
F1Rate ==
    Tabulated([c \in {d \in (0..(2 * MaxLen)) \X (1..(2 * MaxLen)) : d[1] <= d[2]} |->
                    FDivInt(c[1], c[2])])

\* accuracy_score(y_true, y_pred)
accuracy_score(y, yp) ==
    Rate[<<Count({i \in DOMAIN y : y[i] = yp[i]}), Len(y)>>]

\* precision_score(y_true, y_pred, zero_division=0)
precision_score(y, yp) ==
    RatioOrZero(Count({i \in DOMAIN y : y[i] = 1 /\ yp[i] = 1}),
                Count({i \in DOMAIN y : yp[i] = 1}))

\* recall_score(y_true, y_pred, zero_division=0)
recall_score(y, yp) ==
    RatioOrZero(Count({i \in DOMAIN y : y[i] = 1 /\ yp[i] = 1}),
                Count({i \in DOMAIN y : y[i] = 1}))

\* f1_score(y_true, y_pred, zero_division=0)
f1_score(y, yp) ==
    LET tp == Count({i \in DOMAIN y : y[i] = 1 /\ yp[i] = 1})
        fp == Count({i \in DOMAIN y : y[i] = 0 /\ yp[i] = 1})
        fn == Count({i \in DOMAIN y : y[i] = 1 /\ yp[i] = 0})
    IN  IF 2 * tp + fp + fn > 0
        THEN F1Rate[<<2 * tp, 2 * tp + fp + fn>>]
        ELSE FZero

\* ModelMetrics(...): the five scores are validated to lie in [0, 1]
ModelMetrics(accuracy, precision, recall, f1, roc_auc, threshold_analysis, roc, cm, calibration) ==
    IF /\ InRange(accuracy, FZero, FOne) /\ InRange(precision, FZero, FOne)
       /\ InRange(recall, FZero, FOne) /\ InRange(f1, FZero, FOne)
       /\ InRange(roc_auc, FZero, FOne)
    THEN Ok([accuracy |-> accuracy, precision |-> precision,
             recall |-> recall, f1_score |-> f1, roc_auc |-> roc_auc,
             threshold_analysis |-> threshold_analysis, roc_curve |-> roc,
             confusion_matrix |-> cm, calibration_curve |-> calibration])
    ELSE Raise("ValidationError")

\* evaluate_model from the threshold result on
MetricsAtThreshold(y, p, thr, include_calibration, roc, auc, threshold_result) ==
    Only(UNION {{IF cm.status # "ok" THEN cm
                 ELSE ModelMetrics(accuracy_score(y, y_pred_),
                                   precision_score(y, y_pred_),
                                   recall_score(y, y_pred_),
                                   f1_score(y, y_pred_), auc,
                                   threshold_result, roc, cm.value,
                                   Calibration(y, p, include_calibration))
                   : cm \in {calculate_confusion_matrix(y, y_pred_)}}
                   : y_pred_ \in {[i \in DOMAIN p |->
                        Predict(p[i], ResolvedThreshold(thr, threshold_result))]}})

\* evaluate_model(y_true, y_proba, threshold, include_calibration): the
\* first step that raises ends the call
evaluate_model(y, p, thr, include_calibration) ==
    Only({IF roc_data.status # "ok" THEN roc_data
          ELSE Only({IF auc.status # "ok" THEN auc
                     ELSE Only({IF threshold_result.status # "ok"
                                THEN threshold_result
                                ELSE MetricsAtThreshold(y, p, thr,
                                         include_calibration, roc_data.value,
                                         auc.value, threshold_result.value)
                                  : threshold_result \in
                                        {ThresholdAnalysis(y, p, thr)}})
                       : auc \in {roc_auc_score(y, p)}})
            : roc_data \in {calculate_roc_curve(y, p)}})

---------------------------------------------------------------------------
(* shared/schemas/feature_selection.py and                                 *)
(* shared/logic/feature_selection.py.  The fitted models (random forest,   *)
(* XGBoost, logistic regression, SHAP explainer) are library code: the     *)
(* scores they return are inputs of the model.  An optional parameter is   *)
(* a sequence: <<>> for None, <<v>> for the value v.                       *)

TOP_K_MAX == 26
N_BINS_MIN == 5
N_BINS_MAX == 20
N_ITERATIONS_MIN == 20
N_ITERATIONS_MAX == 500
CONFIDENCE_LEVEL_MIN == FDivInt(8, 10)
CONFIDENCE_LEVEL_MAX == FDivInt(99, 100)

\* the defaults of the fields of the parameter objects
N_BINS_DEFAULT == 10
IV_THRESHOLD_DEFAULT == FDivInt(1, 10)
N_ITERATIONS_DEFAULT == 100
CONFIDENCE_LEVEL_DEFAULT == FDivInt(95, 100)
MAX_ITER_DEFAULT == 1000

\* TreeImportanceParams(model_type, top_k, threshold): the validated
\* parameter object, or pydantic's ValidationError
TreeImportanceParams(model_type, top_k, thr) ==
    IF /\ model_type \in {"random_forest", "xgboost"}
       /\ \A i \in DOMAIN top_k : 1 <= top_k[i] /\ top_k[i] <= TOP_K_MAX
       /\ \A i \in DOMAIN thr : InRange(thr[i], FZero, FOne)
    THEN Ok([model_type |-> model_type, top_k |-> top_k, threshold |-> thr])
    ELSE Raise("ValidationError")

\* ShapParams(model_type, top_k, threshold): the class is not among the
\* sources; the tests construct it as TreeImportanceParams, with a
\* sample_size
ShapParams(model_type, top_k, thr) ==
    TreeImportanceParams(model_type, top_k, thr)

\* WoeIvParams(n_bins, iv_threshold)
WoeIvParams(n_bins, iv_threshold) ==
    IF /\ N_BINS_MIN <= n_bins /\ n_bins <= N_BINS_MAX
       /\ InRange(iv_threshold, FZero, FOne)
    THEN Ok([n_bins |-> n_bins, iv_threshold |-> iv_threshold])
    ELSE Raise("ValidationError")

\* _rank_and_build_scores and the selection rules

\* the position of index i in the tie order of the build
TiePosition(tie, i) == CHOOSE k \in DOMAIN tie : tie[k] = i

\* index j is sorted before index i
Before(keys, tie, j, i) ==
    \/ FLt(keys[j], keys[i])
    \/ keys[j] = keys[i] /\ TiePosition(tie, j) < TiePosition(tie, i)

\* np.argsort(keys), indexes from 1.  The default kind is quicksort, which
\* is not stable: the order of equal keys is whatever the build of numpy
\* produces, here the order tie of the indexes.
Argsort(keys, tie) ==
    LET pos == Tabulated([i \in DOMAIN keys |->
                    1 + Cardinality({j \in DOMAIN keys :
                                        Before(keys, tie, j, i)})])
    IN  Tabulated([k \in DOMAIN keys |->
                    CHOOSE i \in DOMAIN keys : pos[i] = k])

\* -scores
Negated(scores) == [i \in DOMAIN scores |-> FNeg(scores[i])]

\* order.argsort() + 1 for a permutation order: the position of each index
Positions(order) ==
    Tabulated([i \in DOMAIN order |->
                    CHOOSE k \in DOMAIN order : order[k] = i])

\* feature_scores.sort(key=lambda fs: fs.rank): the ranks are distinct
SortByRank(feature_scores) ==
    [k \in DOMAIN feature_scores |->
        Only({fs \in Elems(feature_scores) : fs.rank = k})]

\* _rank_and_build_scores(feature_names, scores, selected_mask,
\* metadata_list), with order the outcome of np.argsort(-scores)
rank_and_build_scores(feature_names, scores, selected_mask, metadata_list, order) ==
    LET ranks == Positions(order)
    IN  SortByRank([i \in DOMAIN feature_names |->
            [feature_name |-> feature_names[i],
             score |-> scores[i],
             selected |-> selected_mask[i],
             rank |-> ranks[i],
             metadata |-> IF metadata_list # <<>> THEN metadata_list[i]
                          ELSE "None"]])

\* [n for n, s in zip(feature_names, selected_mask) if s]
RECURSIVE Compress(_, _)
Compress(names, mask) ==
    IF names = <<>> \/ mask = <<>> THEN <<>>
    ELSE (IF Head(mask) THEN <<Head(names)>> ELSE <<>>)
            \o Compress(Tail(names), Tail(mask))

\* selected_mask.sum()
CountTrue(mask) == Cardinality({i \in DOMAIN mask : mask[i]})

\* order[-k:] for k >= 1: the last k indexes, all of them when k exceeds
\* the length
LastK(order, k) ==
    SubSeq(order, IF k >= Len(order) THEN 1 ELSE Len(order) - k + 1,
           Len(order))

\* the selection of select_features_tree_importance and
\* select_features_shap, with top the outcome of np.argsort(importances)
SelectedMask(n, importances, params, top) ==
    IF params.top_k # <<>>
    THEN [i \in 1..n |-> i \in Elems(LastK(top, params.top_k[1]))]
    ELSE IF params.threshold # <<>>
    THEN [i \in 1..n |-> FGe(importances[i], params.threshold[1])]
    ELSE [i \in 1..n |-> FGt(importances[i], FZero)]

\* meta: the selection mode with its parameter, and the model type
SelectionMetadata(params) ==
    IF params.top_k # <<>>
    THEN [selection_mode |-> "top_k", k |-> params.top_k[1],
          model_type |-> params.model_type]
    ELSE IF params.threshold # <<>>
    THEN [selection_mode |-> "threshold", threshold |-> params.threshold[1],
          model_type |-> params.model_type]
    ELSE [selection_mode |-> "non_zero", model_type |-> params.model_type]

\* a mutant of FeatureSelectionResult: n_selected counts every feature
FeatureSelectionResult_CountAll(method, feature_names, selected_mask, feature_scores, metadata) ==
    Ok([method |-> method,
        selected_features |-> Compress(feature_names, selected_mask),
        feature_scores |-> feature_scores,
        n_selected |-> Len(selected_mask),
        n_total |-> Len(feature_names),
        method_metadata |-> metadata])
\* the FeatureSelectionResult every method returns
FeatureSelectionResult(method, feature_names, selected_mask, feature_scores, metadata) ==
    Ok([method |-> method,
        selected_features |-> Compress(feature_names, selected_mask),
        feature_scores |-> feature_scores,
        n_selected |-> CountTrue(selected_mask),
        n_total |-> Len(feature_names),
        method_metadata |-> metadata])

\* select_features_tree_importance(X, y, feature_names, params) for the
\* importances of the fitted model; top and order are the outcomes of its
\* two calls of np.argsort
select_features_tree_importance(feature_names, importances, params, top, order) ==
    LET selected_mask ==
            SelectedMask(Len(feature_names), importances, params, top)
    IN  FeatureSelectionResult("tree_importance", feature_names,
            selected_mask,
            rank_and_build_scores(feature_names, importances,
                                  selected_mask, <<>>, order),
            SelectionMetadata(params))

\* select_features_shap: the same selection over the mean |SHAP| values;
\* sample_size is left out of the metadata
select_features_shap(feature_names, mean_abs_shap, params, top, order) ==
    LET selected_mask ==
            SelectedMask(Len(feature_names), mean_abs_shap, params, top)
    IN  FeatureSelectionResult("shap", feature_names, selected_mask,
            rank_and_build_scores(feature_names, mean_abs_shap,
                                  selected_mask, <<>>, order),
            SelectionMetadata(params))

\* select_features_lasso for the coefficients np.abs(model.coef_[0]); the
\* metadata is what the solver reports (C, converged, n_iterations)
select_features_lasso(feature_names, coefficients, order) ==
    LET selected_mask ==
            [i \in DOMAIN feature_names |-> FGt(coefficients[i], FZero)]
    IN  FeatureSelectionResult("lasso", feature_names, selected_mask,
            rank_and_build_scores(feature_names, coefficients,
                                  selected_mask, <<>>, order),
            "solver report")

\* the bounds of the IV categories, as the docstring of
\* select_features_woe_iv gives them
IV_THRESHOLD_USELESS == FDivInt(2, 100)
IV_THRESHOLD_WEAK == FDivInt(1, 10)
IV_THRESHOLD_MEDIUM == FDivInt(3, 10)
IV_THRESHOLD_STRONG == FDivInt(5, 10)

\* _iv_category(iv)
iv_category(iv) ==
    IF FLt(iv, IV_THRESHOLD_USELESS) THEN "useless"
    ELSE IF FLt(iv, IV_THRESHOLD_WEAK) THEN "weak"
    ELSE IF FLt(iv, IV_THRESHOLD_MEDIUM) THEN "medium"
    ELSE IF FLt(iv, IV_THRESHOLD_STRONG) THEN "strong"
    ELSE "suspicious"

\* a mutant of WoeSelectedMask: the features below the threshold
WoeSelectedMask_Below(iv_scores, iv_threshold) ==
    [i \in DOMAIN iv_scores |-> FLe(iv_scores[i], iv_threshold)]
\* selected_mask = iv_scores >= params.iv_threshold
WoeSelectedMask(iv_scores, iv_threshold) ==
    [i \in DOMAIN iv_scores |-> FGe(iv_scores[i], iv_threshold)]

\* select_features_woe_iv for the information values
\* _calculate_iv_for_feature(X[:, i], y, params.n_bins) of the columns;
\* mean_iv and max_iv are left out of the metadata
select_features_woe_iv(feature_names, iv_scores, params, order) ==
    LET selected_mask == WoeSelectedMask(iv_scores, params.iv_threshold)
    IN  FeatureSelectionResult("woe_iv", feature_names, selected_mask,
            rank_and_build_scores(feature_names, iv_scores, selected_mask,
                [i \in DOMAIN iv_scores |->
                    [iv_category |-> iv_category(iv_scores[i])]],
                order),
            [iv_threshold |-> params.iv_threshold,
             n_bins |-> params.n_bins])

\* BorutaParams(n_iterations, confidence_level, include_tentative)
BorutaParams(n_iterations, confidence_level, include_tentative) ==
    IF /\ N_ITERATIONS_MIN <= n_iterations
       /\ n_iterations <= N_ITERATIONS_MAX
       /\ InRange(confidence_level, CONFIDENCE_LEVEL_MIN,
                  CONFIDENCE_LEVEL_MAX)
    THEN Ok([n_iterations |-> n_iterations,
             confidence_level |-> confidence_level,
             include_tentative |-> include_tentative])
    ELSE Raise("ValidationError")

\* a / d for a natural number a of any size and a small divisor d
RECURSIVE DivSmallLimbs(_, _, _, _)
DivSmallLimbs(a, d, i, r) ==
    IF i = 0 THEN <<>>
    ELSE CHOOSE limbs \in {DivSmallLimbs(a, d, i - 1, cur % d) \o <<cur \div d>> :
                           cur \in {r * LimbBase + a[i]}} : TRUE

BDivSmall(a, d) == BNorm(DivSmallLimbs(a, d, Len(a), 0))

\* scipy.stats.binom.ppf(q, n, 0.5) for 0 < q < 1: the least k whose
\* cumulative probability sum(C(n, j), j <= k) / 2^n is at least q.  A
\* state of the search holds k, C(n, k) in term and the sum up to k in
\* total; the sum is compared with q * 2^n, both scaled to integers.
QuantileReached(q, n, st) ==
    \/ st.k >= n
    \/ \E total \in {BShl(st.total, IF n + q.exp < 0 THEN -(n + q.exp) ELSE 0)},
          bound \in {BShl(q.mant, IF n + q.exp > 0 THEN n + q.exp ELSE 0)} :
            BCmp(total, bound) >= 0

QuantileStep(n, st) ==
    CHOOSE after \in {[k |-> st.k + 1, term |-> next, total |-> BAdd(st.total, next)] :
                      next \in {BDivSmall(BMulSmall(st.term, n - st.k), st.k + 1)}} : TRUE

\* the search runs in blocks of QuantileBlock steps; each state of the
\* search is a value computed once
QuantileBlock == 16

RECURSIVE QuantileSteps(_, _, _, _)
QuantileSteps(q, n, st, steps) ==
    IF steps = 0 \/ QuantileReached(q, n, st) THEN st
    ELSE CHOOSE reached \in {QuantileSteps(q, n, after, steps - 1) :
                             after \in {QuantileStep(n, st)}} : TRUE

RECURSIVE QuantileFrom(_, _, _)
QuantileFrom(q, n, st) ==
    CHOOSE k \in {IF QuantileReached(q, n, reached) THEN reached.k
                  ELSE QuantileFrom(q, n, reached) :
                  reached \in {QuantileSteps(q, n, st, QuantileBlock)}} : TRUE

binom_ppf(q, n) ==
    QuantileFrom(q, n, [k |-> 0, term |-> <<1>>, total |-> <<1>>])

\* threshold_hits = binom.ppf(1 - alpha, n_iterations, 0.5) with
\* alpha = 1 - confidence_level
ThresholdHits(n_iterations, confidence_level) ==
    CHOOSE threshold_hits \in
        {binom_ppf(q, n_iterations) :
            q \in {FSub(FOne, alpha) :
                      alpha \in {FSub(FOne, confidence_level)}}} : TRUE

\* params.n_iterations * 0.1
FTenth == FDivInt(1, 10)
RejectCut(n_iterations) == FMul(FromInt(n_iterations), FTenth)

\* confirmed = hit_counts >= threshold_hits, one element
Confirmed(hits, threshold_hits) == hits >= threshold_hits

\* rejected = hit_counts < params.n_iterations * 0.1, one element
Rejected(hits, reject_cut) == FLt(FromInt(hits), reject_cut)

\* a mutant of Tentative: every feature that is not confirmed
Tentative_NotConfirmed(confirmed, rejected) == ~confirmed
\* tentative = ~confirmed & ~rejected, one element
Tentative(confirmed, rejected) == ~confirmed /\ ~rejected

\* a mutant of BorutaSelected: the tentative features alone
BorutaSelected_TentativeOnly(confirmed, tentative, include_tentative) ==
    IF include_tentative THEN tentative ELSE confirmed
\* selected_mask, one element
BorutaSelected(confirmed, tentative, include_tentative) ==
    IF include_tentative THEN confirmed \/ tentative ELSE confirmed

\* _status(i)
Status(confirmed, tentative) ==
    IF confirmed THEN "confirmed"
    ELSE IF tentative THEN "tentative" ELSE "rejected"

---------------------------------------------------------------------------
(* Callers of the preprocessing functions *)

Fields == {"home_ownership", "loan_intent", "loan_grade", "default_on_file"}
DecodableFields == {"home_ownership", "loan_intent", "loan_grade"}

\* the fixed vocabulary of a field (shared/constants.py)
Vocabulary(f) ==
    CASE f = "home_ownership" -> Elems(VALID_HOME_OWNERSHIP)
      [] f = "loan_intent" -> Elems(VALID_LOAN_INTENT)
      [] f = "loan_grade" -> Elems(VALID_LOAN_GRADE)
      [] f = "default_on_file" -> Elems(VALID_DEFAULT_ON_FILE)

\* strings outside every vocabulary
UnknownValues == {"INVALID", "rent"}

\* numbers handed directly to a decode function: integer codes, integers
\* outside every code range and non-integral numbers
CodeInputs ==
    {Rat(k, 1) : k \in -1..7} \cup {Rat(17, 10), Rat(-1, 2), Rat(5, 2)}

\* an integer array seen as a list of numbers
AsNumbers(arr) == [i \in DOMAIN arr |-> Rat(arr[i], 1)]

MemoryIdle == heap = <<>> /\ frame = NoResult
ThresholdIdle ==
    /\ y_true = <<>> /\ y_proba = <<>> /\ threshold = Zero
    /\ optimal = NoResult /\ evaluated = NoResult
EvaluationIdle ==
    y_pred = <<>> /\ confusion = NoResult /\ confidence = NoResult
FeatureSelectionIdle ==
    /\ request = NoResult /\ result = NoResult /\ again = NoResult
    /\ tie_order = <<>> /\ np_random = 0
PreprocessingIdle ==
    /\ field = "" /\ values = <<>> /\ encoded = NoResult
    /\ codes = <<>> /\ decoded = NoResult

InitPreprocessing ==
    /\ MemoryIdle
    /\ field \in Fields
    /\ \/ /\ pc = "encode"
          /\ values \in SeqsUpTo(Vocabulary(field) \cup UnknownValues, MaxValues)
          /\ codes = <<>>
       \/ /\ pc = "decode"
          /\ field \in DecodableFields
          /\ values = <<>>
          /\ codes \in SeqsOfLen(CodeInputs, 1, MaxCodes)
    /\ encoded = NoResult
    /\ decoded = NoResult
    /\ ThresholdIdle
    /\ EvaluationIdle
    /\ FeatureSelectionIdle

\* after encode_<field> returned r: its array goes to decode_<field> when
\* the field has one
AfterEncode(r) ==
    /\ encoded' = r
    /\ IF r.status = "ok" /\ field \in DecodableFields
       THEN pc' = "decode" /\ codes' = AsNumbers(r.value)
       ELSE pc' = "done" /\ codes' = codes
    /\ UNCHANGED <<field, values, decoded, y_true, y_proba, threshold,
                   optimal, evaluated, y_pred, confusion, confidence,
                   request, result, again, tie_order, np_random,
                   heap, frame>>

AfterDecode(r) ==
    /\ decoded' = r
    /\ pc' = "done"
    /\ UNCHANGED <<field, values, encoded, codes, y_true, y_proba, threshold,
                   optimal, evaluated, y_pred, confusion, confidence,
                   request, result, again, tie_order, np_random,
                   heap, frame>>

EncodeHomeOwnership ==
    /\ pc = "encode" /\ field = "home_ownership"
    /\ AfterEncode(encode_home_ownership(values))
EncodeLoanIntent ==
    /\ pc = "encode" /\ field = "loan_intent"
    /\ AfterEncode(encode_loan_intent(values))
EncodeLoanGrade ==
    /\ pc = "encode" /\ field = "loan_grade"
    /\ AfterEncode(encode_loan_grade(values))
EncodeDefaultOnFile ==
    /\ pc = "encode" /\ field = "default_on_file"
    /\ AfterEncode(encode_default_on_file(values))
DecodeHomeOwnership ==
    /\ pc = "decode" /\ field = "home_ownership"
    /\ AfterDecode(decode_home_ownership(codes))
DecodeLoanIntent ==
    /\ pc = "decode" /\ field = "loan_intent"
    /\ AfterDecode(decode_loan_intent(codes))
DecodeLoanGrade ==
    /\ pc = "decode" /\ field = "loan_grade"
    /\ AfterDecode(decode_loan_grade(codes))

NextPreprocessing ==
    \/ EncodeHomeOwnership
    \/ EncodeLoanIntent
    \/ EncodeLoanGrade
    \/ EncodeDefaultOnFile
    \/ DecodeHomeOwnership
    \/ DecodeLoanIntent
    \/ DecodeLoanGrade

SpecPreprocessing == InitPreprocessing /\ [][NextPreprocessing]_vars

---------------------------------------------------------------------------
(* Claims about the preprocessing functions *)

AllValid == \A i \in DOMAIN values : values[i] \in Vocabulary(field)

\* C1: for every list of valid category values of home ownership, loan
\* intent or loan grade, decoding the encoded list returns the list
\* unchanged: the same values in the same order and of the same length.
C1_RoundTrip ==
    (pc = "done" /\ field \in DecodableFields /\ encoded # NoResult /\ AllValid)
        => /\ encoded.status = "ok"
           /\ decoded.status = "ok"
           /\ decoded.value = values

C1_Witness ==
    /\ pc = "done" /\ field = "home_ownership"
    /\ Len(values) >= 2 /\ values[1] = "OTHER" /\ values[2] = "MORTGAGE"
    /\ decoded.status = "ok" /\ decoded.value = values

\* C2: each of the four encode functions raises the unknown-value error as
\* soon as its input holds a value outside the field's vocabulary, wherever
\* the value stands in the list; it returns no array in that case.
C2_UnknownRejected ==
    (encoded # NoResult /\ ~AllValid)
        => /\ encoded.status = "raised"
           /\ encoded.error = "Unknown " \o field \o " value"
           /\ decoded = NoResult

C2_Witness ==
    /\ field = "default_on_file" /\ Len(values) >= 2
    /\ values[1] = "Y" /\ values[Len(values)] = "INVALID"
    /\ encoded.status = "raised"

\* the integer codes of a field that has a decode function
FieldCodes(f) ==
    CASE f = "home_ownership" -> 0..(Len(VALID_HOME_OWNERSHIP) - 1)
      [] f = "loan_intent" -> 0..(Len(VALID_LOAN_INTENT) - 1)
      [] f = "loan_grade" -> 0..(Len(VALID_LOAN_GRADE) - 1)

IsCode(x, f) == x.d = 1 /\ x.n \in FieldCodes(f)
Integral(x) == x.d = 1

\* C27 as claimed: each decode function fails for every input value that
\* is not one of the field's integer codes, integers outside the code range
\* and non-integral numbers alike; no such value is mapped to a category.
C27_Original ==
    (decoded # NoResult /\ \E i \in DOMAIN codes : ~IsCode(codes[i], field))
        => decoded.status = "raised"

\* C27, what the code gives: a decode function fails when the integer part
\* int(val) of some value is outside the code range, so for every integer
\* outside it; a non-integral number is decoded as its integer part.
C27_IntegerPartChecked ==
    decoded # NoResult
        => IF \E i \in DOMAIN codes : PyInt(codes[i]) \notin FieldCodes(field)
           THEN decoded.status = "raised"
           ELSE /\ decoded.status = "ok"
                /\ Len(decoded.value) = Len(codes)
                /\ (\A i \in DOMAIN codes : Integral(codes[i])
                                                => IsCode(codes[i], field))

C27_Witness ==
    /\ field = "loan_grade" /\ encoded = NoResult
    /\ Len(codes) = 2 /\ codes[1] = Rat(3, 1) /\ codes[2] = Rat(7, 1)
    /\ decoded.status = "raised"

---------------------------------------------------------------------------
(* Callers of the threshold functions *)

Labels == {0, 1}

\* thresholds handed to evaluate_threshold: the probability grid, the
\* midpoints between its points, one value below 0, one above 1, and nan
Thresholds ==
    {Rat(k, 2 * ProbDen) : k \in -1..(2 * ProbDen + 1)} \cup {NaN}

\* the probability arrays longer than MaxLen, in descending order
SortedProbabilities ==
    {s \in SeqsOfLen(Probabilities, MaxLen + 1, MaxSortedLen) :
        \A i \in 1..(Len(s) - 1) : RGe(s[i], s[i + 1])}

\* arrays of up to MaxLen samples in any order, of equal lengths or of
\* different lengths up to MaxMismatchLen; longer arrays, up to
\* MaxSortedLen samples, with the probabilities in descending order
InitThreshold ==
    /\ MemoryIdle
    /\ pc = "find"
    /\ \/ /\ y_true \in SeqsUpTo(Labels, MaxLen)
          /\ y_proba \in SeqsUpTo(Probabilities, MaxLen)
          /\ \/ Len(y_true) = Len(y_proba)
             \/ Len(y_true) <= MaxMismatchLen /\ Len(y_proba) <= MaxMismatchLen
       \/ /\ y_proba \in SortedProbabilities
          /\ y_true \in SeqsOfLen(Labels, MaxLen + 1, MaxSortedLen)
          /\ Len(y_true) = Len(y_proba)
    /\ threshold = Zero
    /\ optimal = NoResult
    /\ evaluated = NoResult
    /\ PreprocessingIdle
    /\ EvaluationIdle
    /\ FeatureSelectionIdle

FindOptimalThreshold ==
    /\ pc = "find"
    /\ optimal' = find_optimal_threshold(y_true, y_proba)
    /\ pc' = "evaluate"
    /\ UNCHANGED <<field, values, encoded, codes, decoded, y_true, y_proba,
                   threshold, evaluated, y_pred, confusion, confidence,
                   request, result, again, tie_order, np_random,
                   heap, frame>>

EvaluateThreshold ==
    /\ pc = "evaluate"
    /\ \E t \in Thresholds :
          /\ threshold' = t
          /\ evaluated' = evaluate_threshold(y_true, y_proba, t)
    /\ pc' = "done"
    /\ UNCHANGED <<field, values, encoded, codes, decoded, y_true, y_proba,
                   optimal, y_pred, confusion, confidence,
                   request, result, again, tie_order, np_random,
                   heap, frame>>

NextThreshold ==
    \/ FindOptimalThreshold
    \/ EvaluateThreshold

SpecThreshold == InitThreshold /\ [][NextThreshold]_vars

---------------------------------------------------------------------------
(* Claims about the threshold functions *)

Positives == {i \in DOMAIN y_true : y_true[i] = 1}
Negatives == {i \in DOMAIN y_true : y_true[i] = 0}
SameLength == Len(y_true) = Len(y_proba)
ThresholdInUnitInterval ==
    threshold.d # 0 /\ 0 <= threshold.n /\ threshold.n <= threshold.d

\* C3: for equal-length labels and probabilities and any threshold in
\* [0,1], the result of evaluate_threshold has youden_j equal to
\* sensitivity + specificity - 1, also when a denominator is zero and
\* sensitivity or specificity is set to 0.
\* 0.5 as a metric
FHalf == FDivInt(1, 2)

\* s + t - 1.0 for the values s and t of the rates
SumMinusOne ==
    Tabulated([s \in RateValues, t \in RateValues |->
                    FSub(FAdd(s, t), FOne)])

C3_YoudenIdentity ==
    evaluated.status = "ok"
        => LET r == evaluated.value
           IN  r.youden_j = SumMinusOne[r.sensitivity, r.specificity]

C3_Witness ==
    /\ evaluated.status = "ok"
    /\ Len(y_true) >= 2 /\ Positives = {}
    /\ evaluated.value.sensitivity = FZero
    /\ evaluated.value.specificity = FHalf

\* C4 as claimed: the optimum is a true maximum: for two-class labels and
\* any threshold t in [0,1], the youden_j of find_optimal_threshold is at
\* least the youden_j of evaluate_threshold at t.
C4_Original ==
    (optimal.status = "ok" /\ evaluated.status = "ok")
        => FGe(optimal.value.youden_j, evaluated.value.youden_j)

\* 1e-9
Tolerance == FDivInt(1, 1000000000)
\* j - 1e-9 for the values j of sensitivity + specificity - 1.0
Lowered ==
    Tabulated([j \in {SumMinusOne[c] : c \in DOMAIN SumMinusOne} |->
                    FSub(j, Tolerance)])

\* C4 as amended: for two-class labels and any threshold t in [0,1], the
\* youden_j of find_optimal_threshold is at least the youden_j of
\* evaluate_threshold at t less 1e-9: the former is the float tpr - fpr,
\* the latter the float sensitivity + specificity - 1.0, and the two round
\* differently.
C4_OptimumIsMaximum ==
    (optimal.status = "ok" /\ evaluated.status = "ok")
        => FGe(optimal.value.youden_j, Lowered[evaluated.value.youden_j])

C4_Witness ==
    /\ optimal.status = "ok" /\ evaluated.status = "ok"
    /\ threshold = Half
    /\ optimal.value.threshold # Half
    /\ FGt(optimal.value.youden_j, evaluated.value.youden_j)
    /\ FGt(evaluated.value.youden_j, FZero)

\* C5: for perfectly separable input (both classes present, every label-0
\* sample strictly below every label-1 sample) find_optimal_threshold
\* returns sensitivity, specificity, youden_j, precision and f1_score all
\* equal to 1, with a threshold above the largest label-0 probability and
\* at most the smallest label-1 probability.
Separable ==
    /\ SameLength /\ Positives # {} /\ Negatives # {}
    /\ \A i \in Negatives : \A j \in Positives : RLt(y_proba[i], y_proba[j])

C5_PerfectSeparation ==
    (optimal # NoResult /\ Separable)
        => /\ optimal.status = "ok"
           /\ LET r == optimal.value
              IN  /\ r.sensitivity = FOne /\ r.specificity = FOne
                  /\ r.youden_j = FOne
                  /\ r.precision = FOne /\ r.f1_score = FOne
                  /\ \A i \in Negatives : RLt(y_proba[i], r.threshold)
                  /\ \A j \in Positives : RLe(r.threshold, y_proba[j])

C5_Witness ==
    /\ optimal.status = "ok" /\ Separable
    /\ Cardinality(Positives) >= 2
    /\ \E i, j \in Positives : y_proba[i] # y_proba[j]
    /\ optimal.value.f1_score = FOne

\* C6: find_optimal_threshold returns no result and raises the error of the
\* defect found first: the empty-input error when either array is empty,
\* the length-mismatch error when both are non-empty and of different
\* lengths, the degenerate-labels error when they are of equal length and
\* the labels hold one class only.
C6_MalformedInputErrors ==
    optimal # NoResult
        => /\ (Len(y_true) = 0 \/ Len(y_proba) = 0)
                => (optimal.status = "raised"
                    /\ optimal.error = "Input arrays cannot be empty")
           /\ (Len(y_true) > 0 /\ Len(y_proba) > 0 /\ ~SameLength)
                => (optimal.status = "raised"
                    /\ optimal.error = "Array length mismatch")
           /\ (Len(y_true) > 0 /\ SameLength
               /\ (Positives = {} \/ Negatives = {}))
                => (optimal.status = "raised"
                    /\ optimal.error =
                        "Cannot calculate ROC curve with only one class present")

C6_Witness ==
    /\ optimal.status = "raised"
    /\ optimal.error = "Input arrays cannot be empty"
    /\ Len(y_true) = 0 /\ Len(y_proba) > 0

\* C7 as claimed: evaluate_threshold at threshold 0.0 returns sensitivity
\* 1.0 and specificity 0.0 on any dataset.
C7_Original ==
    (evaluated.status = "ok" /\ threshold = Zero)
        => /\ evaluated.value.sensitivity = FOne
           /\ evaluated.value.specificity = FZero

\* C7 as amended: evaluate_threshold at threshold 0.0 returns specificity
\* 0.0 on any dataset, and sensitivity 1.0 when the labels hold at least
\* one 1 (0.0 when they hold none).
C7_ThresholdZero ==
    (evaluated.status = "ok" /\ threshold = Zero)
        => /\ evaluated.value.specificity = FZero
           /\ evaluated.value.sensitivity =
                  (IF Positives # {} THEN FOne ELSE FZero)

C7_Witness ==
    /\ evaluated.status = "ok" /\ threshold = Zero
    /\ Positives # {} /\ Negatives # {}
    /\ \E i \in Positives : y_proba[i] = Zero
    /\ evaluated.value.sensitivity = FOne

C9_ThresholdValidated ==
    evaluated # NoResult
        => IF ThresholdInUnitInterval
           THEN SameLength
                    => (evaluated.status = "ok"
                        /\ evaluated.value.threshold = threshold)
           ELSE /\ evaluated.status = "raised"
                /\ evaluated.error = "Threshold must be in [0, 1]"

C9_Witness ==
    /\ evaluated.status = "raised"
    /\ evaluated.error = "Threshold must be in [0, 1]"
    /\ threshold.d # 0 /\ threshold.n < 0
    /\ SameLength /\ Len(y_true) > 0

\* the threshold evaluated is the threshold find_optimal_threshold returned
AtOptimum ==
    /\ optimal.status = "ok" /\ evaluated.status = "ok"
    /\ threshold = optimal.value.threshold

\* abs(a - b) <= 1e-9
Close(a, b) == FLe(FAbs(FSub(a, b)), Tolerance)

\* C24 as claimed: the result of find_optimal_threshold describes the
\* threshold it returns: its sensitivity, specificity and youden_j equal
\* those of evaluate_threshold at that threshold, the 0.5 fallback included.
C24_Original ==
    AtOptimum
        => /\ optimal.value.sensitivity = evaluated.value.sensitivity
           /\ optimal.value.specificity = evaluated.value.specificity
           /\ optimal.value.youden_j = evaluated.value.youden_j

\* C24, what the code gives: when the maximal J is above 0, so that the ROC
\* point chosen is not the first one with its non-finite threshold, the
\* sensitivity is that of evaluate_threshold at the threshold returned and
\* the specificity and youden_j are within 1e-9 of it.
C24_DescribesAboveChance ==
    (AtOptimum /\ FGt(optimal.value.youden_j, FZero))
        => /\ optimal.value.sensitivity = evaluated.value.sensitivity
           /\ Close(optimal.value.specificity, evaluated.value.specificity)
           /\ Close(optimal.value.youden_j, evaluated.value.youden_j)

C24_Witness ==
    /\ AtOptimum /\ FGt(optimal.value.youden_j, FZero)
    /\ optimal.value.specificity # evaluated.value.specificity
    /\ optimal.value.sensitivity # FOne

---------------------------------------------------------------------------
(* Callers of the evaluation functions *)

\* label values handed to calculate_confusion_matrix: the two classes and
\* one value that is neither
ClassValues == {0, 1, 2}

\* the confidence of every probability and threshold handed in
ConfidenceOf ==
    Tabulated([p \in Probabilities, t \in Thresholds |->
                    Confidence(ToFloat(p), ToFloat(t))])

\* calculate_model_confidence(y_proba, threshold): the threshold is not
\* validated
calculate_model_confidence(proba, t) ==
    Ok([i \in DOMAIN proba |-> ConfidenceOf[proba[i], t]])

InitEvaluation ==
    /\ MemoryIdle
    /\ \/ /\ pc = "confusion"
          /\ y_true \in SeqsUpTo(ClassValues, MaxSamples)
          /\ y_pred \in SeqsUpTo(ClassValues, MaxSamples)
          /\ y_proba = <<>> /\ threshold = Zero
       \/ /\ pc = "confidence"
          /\ y_proba \in SeqsUpTo(Probabilities, MaxLen)
          /\ threshold \in Thresholds
          /\ y_true = <<>> /\ y_pred = <<>>
    /\ confusion = NoResult /\ confidence = NoResult
    /\ optimal = NoResult /\ evaluated = NoResult
    /\ PreprocessingIdle
    /\ FeatureSelectionIdle

CalculateConfusionMatrix ==
    /\ pc = "confusion"
    /\ confusion' = calculate_confusion_matrix(y_true, y_pred)
    /\ pc' = "done"
    /\ UNCHANGED <<field, values, encoded, codes, decoded, y_true, y_proba,
                   threshold, optimal, evaluated, y_pred, confidence,
                   request, result, again, tie_order, np_random,
                   heap, frame>>

CalculateModelConfidence ==
    /\ pc = "confidence"
    /\ confidence' = calculate_model_confidence(y_proba, threshold)
    /\ pc' = "done"
    /\ UNCHANGED <<field, values, encoded, codes, decoded, y_true, y_proba,
                   threshold, optimal, evaluated, y_pred, confusion,
                   request, result, again, tie_order, np_random,
                   heap, frame>>

NextEvaluation ==
    \/ CalculateConfusionMatrix
    \/ CalculateModelConfidence

SpecEvaluation == InitEvaluation /\ [][NextEvaluation]_vars

---------------------------------------------------------------------------
(* Claims about the evaluation functions *)

\* C10: in every ConfusionMatrix that calculate_confusion_matrix returns,
\* the four counts sum to the number of labels and the matrix is
\* [[true_negatives, false_positives], [false_negatives, true_positives]].
C10_CountsSumToLength ==
    confusion.status = "ok"
        => LET c == confusion.value
           IN  /\ c.true_negatives + c.false_positives
                    + c.false_negatives + c.true_positives = Len(y_true)
               /\ c.matrix = << <<c.true_negatives, c.false_positives>>,
                                <<c.false_negatives, c.true_positives>> >>

C10_Witness ==
    /\ confusion.status = "ok"
    /\ Elems(y_true) = {0, 1}
    /\ confusion.value.true_negatives = 1
    /\ confusion.value.false_positives = 2
    /\ confusion.value.false_negatives = 0
    /\ confusion.value.true_positives = 1

\* equal-length, non-empty arrays of the labels 0 and 1
BinaryInput ==
    /\ Len(y_true) = Len(y_pred) /\ Len(y_true) > 0
    /\ Elems(y_true) \cup Elems(y_pred) \subseteq {0, 1}

\* C11 as claimed: for equal-length binary labels and predictions, also
\* when only one class value occurs in both arrays together,
\* calculate_confusion_matrix returns a ConfusionMatrix with a 2x2 matrix.
C11_Original ==
    (confusion # NoResult /\ BinaryInput)
        => /\ confusion.status = "ok"
           /\ Len(confusion.value.matrix) = 2
           /\ \A i \in 1..2 : Len(confusion.value.matrix[i]) = 2

\* C11 as the code behaves: for equal-length, non-empty binary labels and
\* predictions calculate_confusion_matrix returns a ConfusionMatrix, with a
\* 2x2 matrix, exactly when both class values occur in the two arrays
\* together; when only one occurs it raises the 2x2 shape error.
C11_TwoClassesNeeded ==
    (confusion # NoResult /\ BinaryInput)
        => IF Elems(y_true) \cup Elems(y_pred) = {0, 1}
           THEN /\ confusion.status = "ok"
                /\ Len(confusion.value.matrix) = 2
                /\ \A i \in 1..2 : Len(confusion.value.matrix[i]) = 2
           ELSE /\ confusion.status = "raised"
                /\ confusion.error = "Expected 2x2 confusion matrix"

C11_Witness ==
    /\ confusion.status = "raised"
    /\ confusion.error = "Expected 2x2 confusion matrix"
    /\ Len(y_true) >= 2
    /\ Elems(y_true) = {0} /\ Elems(y_pred) = {0}

\* the positions of the probabilities 0 and 1
Extremes == {i \in DOMAIN y_proba : y_proba[i] \in {Zero, One}}

\* C12 as claimed: for every threshold in [0,1] the confidence of a
\* probability 0 and of a probability 1 is exactly 1.
C12_Original ==
    (confidence.status = "ok" /\ ThresholdInUnitInterval)
        => \A i \in Extremes : confidence.value[i] = FOne

\* C12 as amended: for every threshold t in [0,1] the confidence is
\* exactly 1 at the extreme farther from t: at probability 0 exactly when
\* t >= 0.5, at probability 1 exactly when t <= 0.5; at the nearer extreme
\* it is below 1.
C12_FartherExtreme ==
    (confidence.status = "ok" /\ ThresholdInUnitInterval)
        => \A i \in Extremes :
              /\ FLe(confidence.value[i], FOne)
              /\ (confidence.value[i] = FOne)
                    <=> IF y_proba[i] = Zero THEN RGe(threshold, Half)
                        ELSE RLe(threshold, Half)

C12_Witness ==
    /\ confidence.status = "ok" /\ ThresholdInUnitInterval
    /\ RLt(Zero, threshold) /\ RLt(threshold, Half)
    /\ Len(y_proba) = 2 /\ y_proba[1] = Zero /\ y_proba[2] = One
    /\ FLt(confidence.value[1], FOne)
    /\ confidence.value[2] = FOne

\* C13: for every threshold t in [0,1], the confidence of a probability
\* equal to t is 0 and the confidence of every probability in [0,1] lies
\* in [0,1].
C13_ConfidenceInUnitInterval ==
    (confidence.status = "ok" /\ ThresholdInUnitInterval)
        => /\ Len(confidence.value) = Len(y_proba)
           /\ \A i \in DOMAIN y_proba :
                 /\ y_proba[i] = threshold => confidence.value[i] = FZero
                 /\ FLe(FZero, confidence.value[i])
                 /\ FLe(confidence.value[i], FOne)

C13_Witness ==
    /\ confidence.status = "ok"
    /\ threshold = Rat(2, 3)
    /\ Len(y_proba) = 3
    /\ y_proba[1] = threshold /\ confidence.value[1] = FZero
    /\ y_proba[2] = One
    /\ FLt(FZero, confidence.value[2]) /\ FLt(confidence.value[2], FOne)
    /\ y_proba[3] = Zero /\ confidence.value[3] = FOne

---------------------------------------------------------------------------
(* Callers of evaluate_model.  The request holds the optional threshold    *)
(* and the include_calibration flag of the call.                           *)

\* the scores handed to evaluate_model: scores within [0, 1] and one value
\* above 1, which the calibration curve is not defined for
ModelScores == UnitScores \cup {Rat(ProbDen + 1, ProbDen)}

\* threshold = None, or a threshold: one below 0, the ends of [0, 1], a
\* score, a value between two scores, or nan
OptionalThresholds ==
    {None} \cup {<<t>> : t \in {Rat(-1, 2 * ProbDen), Zero, Rat(1, 2 * ProbDen), Rat(1, ProbDen), One, NaN}}

InitEvaluateModel ==
    /\ MemoryIdle
    /\ pc = "evaluate_model"
    /\ y_true \in SeqsUpTo(Labels, MaxLen)
    /\ y_proba \in SeqsUpTo(ModelScores, MaxLen)
    /\ \/ Len(y_true) = Len(y_proba)
       \/ Len(y_true) <= MaxMismatchLen /\ Len(y_proba) <= MaxMismatchLen
    /\ request \in {Ok([threshold |-> thr, include_calibration |-> b]) :
                        thr \in OptionalThresholds, b \in BOOLEAN}
    /\ result = NoResult /\ again = NoResult
    /\ tie_order = <<>> /\ np_random = 0
    /\ threshold = Zero /\ optimal = NoResult /\ evaluated = NoResult
    /\ EvaluationIdle
    /\ PreprocessingIdle

EvaluateModel ==
    /\ pc = "evaluate_model"
    /\ result' = evaluate_model(y_true, y_proba, request.value.threshold,
                                request.value.include_calibration)
    /\ pc' = "done"
    /\ UNCHANGED <<field, values, encoded, codes, decoded, y_true, y_proba,
                   threshold, optimal, evaluated, y_pred, confusion,
                   confidence, request, again, tie_order, np_random,
                   heap, frame>>

NextEvaluateModel == EvaluateModel

SpecEvaluateModel == InitEvaluateModel /\ [][NextEvaluateModel]_vars

---------------------------------------------------------------------------
(* Claims about evaluate_model *)

\* the samples of y_true that are predicted positive at the threshold t
PredictedPositive(t) == {i \in DOMAIN y_true : RGe(y_proba[i], t)}

\* the metrics m are those of the predictions y_proba >= t
MetricsOfPredictionsAt(m, t) ==
    LET tp == Count(Positives \cap PredictedPositive(t))
        fp == Count(Negatives \cap PredictedPositive(t))
        fn == Count(Positives \ PredictedPositive(t))
        tn == Count(Negatives \ PredictedPositive(t))
    IN  /\ m.accuracy = Rate[<<tp + tn, Len(y_true)>>]
        /\ m.precision = (IF tp + fp > 0 THEN Rate[<<tp, tp + fp>>] ELSE FZero)
        /\ m.recall = (IF tp + fn > 0 THEN Rate[<<tp, tp + fn>>] ELSE FZero)
        /\ m.f1_score = (IF 2 * tp + fp + fn > 0
                         THEN F1Rate[<<2 * tp, 2 * tp + fp + fn>>]
                         ELSE FZero)
        /\ m.confusion_matrix.matrix = << <<tn, fp>>, <<fn, tp>> >>
        /\ m.confusion_matrix.true_negatives = tn
        /\ m.confusion_matrix.false_positives = fp
        /\ m.confusion_matrix.false_negatives = fn
        /\ m.confusion_matrix.true_positives = tp

\* evaluate_model has returned metrics
ModelEvaluated == pc = "done" /\ result.status = "ok"

\* C21: without a threshold, threshold_analysis of the metrics
\* evaluate_model returns is the result of find_optimal_threshold, and
\* accuracy, precision, recall, F1 and the confusion matrix are those of
\* the predictions p >= t at that result's threshold; with a threshold,
\* threshold_analysis is the result of evaluate_threshold, its threshold
\* is the supplied value, and the metrics are those of the predictions at
\* the supplied value.
C21_ThresholdResolved ==
    ModelEvaluated
        => LET m == result.value
               thr == request.value.threshold
           IN  IF thr = None
               THEN /\ Ok(m.threshold_analysis)
                          = find_optimal_threshold(y_true, y_proba)
                    /\ MetricsOfPredictionsAt(m, m.threshold_analysis.threshold)
               ELSE /\ Ok(m.threshold_analysis)
                          = evaluate_threshold(y_true, y_proba, thr[1])
                    /\ m.threshold_analysis.threshold = thr[1]
                    /\ MetricsOfPredictionsAt(m, thr[1])

C21_Witness ==
    /\ ModelEvaluated
    /\ request.value.threshold = None
    /\ y_true = <<0, 1, 0>>
    /\ result.value.threshold_analysis.threshold = Rat(1, ProbDen)
    /\ result.value.confusion_matrix.false_positives = 1
    /\ result.value.confusion_matrix.true_positives = 1
    /\ result.value.confusion_matrix.true_negatives = 1

\* a step of evaluate_model other than the calibration curve raises
OtherStepFails ==
    LET thr == request.value.threshold
        threshold_result == ThresholdAnalysis(y_true, y_proba, thr)
    IN  \/ calculate_roc_curve(y_true, y_proba).status = "raised"
        \/ roc_auc_score(y_true, y_proba).status = "raised"
        \/ threshold_result.status = "raised"
        \/ calculate_confusion_matrix(y_true,
              [i \in DOMAIN y_proba |->
                  Predict(y_proba[i],
                          ResolvedThreshold(thr, threshold_result.value))]).status
                = "raised"

\* C22: evaluate_model returns metrics exactly when no step other than the
\* calibration curve raises.  Then every field but calibration_curve is
\* what a call without the calibration curve returns; calibration_curve is
\* None when include_calibration is false and when the computation of the
\* curve raises, and the curve otherwise.
C22_CalibrationFailureSwallowed ==
    pc = "done"
        => LET args == request.value
               curve == calculate_calibration_curve(y_true, y_proba, 10)
               plain == evaluate_model(y_true, y_proba, args.threshold, FALSE)
           IN  IF OtherStepFails THEN result.status = "raised"
               ELSE /\ result.status = "ok"
                    /\ plain.status = "ok"
                    /\ plain.value.calibration_curve = None
                    /\ [result.value EXCEPT !.calibration_curve = None]
                          = plain.value
                    /\ result.value.calibration_curve
                          = (IF args.include_calibration /\ curve.status = "ok"
                             THEN <<curve.value>> ELSE None)

C22_Witness ==
    /\ ModelEvaluated
    /\ request.value.include_calibration
    /\ \E i \in DOMAIN y_proba : RGt(y_proba[i], One)
    /\ calculate_calibration_curve(y_true, y_proba, 10).status = "raised"
    /\ result.value.calibration_curve = None
    /\ result.value.roc_auc = FOne

---------------------------------------------------------------------------
(* Callers of the feature-selection methods.  A request holds the feature  *)
(* names, the scores the fitted library model gives the features (for      *)
(* Boruta the hit counts the features end the iterations with) and the     *)
(* arguments of the parameter object.  Feature i of the matrix is named    *)
(* by the number i - 1.                                                    *)

FeatureNames(n) == [i \in 1..n |-> i - 1]

\* the scores a fitted model gives
ScoreValues == {FZero, FDivInt(1, 4), FOne}
ScoreVectors == SeqsOfLen(ScoreValues, 1, MaxFeatures)

\* thresholds handed to TreeImportanceParams and WoeIvParams
ThresholdValues == {FMinusOne, FZero, FDivInt(1, 4), FHalf, FOne, FTwo}

\* top_k handed to TreeImportanceParams
TopKValues ==
    {0, 1, 2, MaxFeatures, MaxFeatures + 1, TOP_K_MAX, TOP_K_MAX + 1}

\* n_bins handed to WoeIvParams
NBinsValues == {N_BINS_MIN - 1, N_BINS_MIN, N_BINS_MAX + 1}

\* n_iterations and confidence_level handed to BorutaParams
IterationCounts ==
    {N_ITERATIONS_MIN - 1, N_ITERATIONS_MIN, N_ITERATIONS_MAX,
     N_ITERATIONS_MAX + 1}
ConfidenceLevels ==
    {ToFloat(Rat(75, 100)), CONFIDENCE_LEVEL_MIN, CONFIDENCE_LEVEL_MAX,
     FOne}

ValidIterationCounts ==
    {n \in IterationCounts :
        N_ITERATIONS_MIN <= n /\ n <= N_ITERATIONS_MAX}
ValidConfidenceLevels ==
    {c \in ConfidenceLevels :
        InRange(c, CONFIDENCE_LEVEL_MIN, CONFIDENCE_LEVEL_MAX)}

\* binom.ppf, n_iterations * 0.1 and the hit rates of the parameters handed
\* in
\* in, and of the defaults of BorutaParams
TabulatedIterationCounts == ValidIterationCounts \cup {N_ITERATIONS_DEFAULT}
ThresholdHitsOf ==
    Tabulated([d \in (ValidIterationCounts \X ValidConfidenceLevels) \cup {<<N_ITERATIONS_DEFAULT, CONFIDENCE_LEVEL_DEFAULT>>} |->
                    ThresholdHits(d[1], d[2])])
RejectCutOf == Tabulated([n \in TabulatedIterationCounts |-> RejectCut(n)])
HitRateOf ==
    Tabulated([h \in {d \in (0..N_ITERATIONS_MAX) \X TabulatedIterationCounts :
                        d[1] <= d[2]} |-> FDivInt(h[1], h[2])])

\* select_features_boruta for the hit counts the iterations end with
select_features_boruta(feature_names, hit_counts, params, order) ==
    LET n == params.n_iterations
        Result(threshold_hits, reject_cut, scores) ==
            LET confirmed == [i \in DOMAIN hit_counts |->
                                Confirmed(hit_counts[i], threshold_hits)]
                rejected == [i \in DOMAIN hit_counts |->
                                Rejected(hit_counts[i], reject_cut)]
                tentative == [i \in DOMAIN hit_counts |->
                                Tentative(confirmed[i], rejected[i])]
                selected_mask ==
                    [i \in DOMAIN hit_counts |->
                        BorutaSelected(confirmed[i], tentative[i],
                                       params.include_tentative)]
            IN  FeatureSelectionResult("boruta", feature_names,
                    selected_mask,
                    rank_and_build_scores(feature_names, scores,
                        selected_mask,
                        [i \in DOMAIN hit_counts |->
                            [status |-> Status(confirmed[i], tentative[i]),
                             hit_rate |-> scores[i]]],
                        order),
                    [n_iterations |-> n,
                     confidence_level |-> params.confidence_level,
                     include_tentative |-> params.include_tentative,
                     n_confirmed |-> CountTrue(confirmed),
                     n_tentative |-> CountTrue(tentative),
                     n_rejected |-> CountTrue(rejected)])
    IN  CHOOSE r \in
            {Result(threshold_hits, reject_cut, scores) :
                threshold_hits \in {ThresholdHitsOf[n, params.confidence_level]},
                reject_cut \in {RejectCutOf[n]},
                scores \in {[i \in DOMAIN hit_counts |->
                                HitRateOf[<<hit_counts[i], n>>]]}} : TRUE

\* the hit counts around the two cuts of the statuses
BoundaryHits(n, c) ==
    {n \div 10 - 1, n \div 10, ThresholdHitsOf[n, c] - 1,
     ThresholdHitsOf[n, c]}

\* the hit counts of a request: every count for a single feature, the
\* counts around the cuts for more features
HitVectors(n, c) ==
    IF n \in ValidIterationCounts /\ c \in ValidConfidenceLevels
    THEN [1..1 -> 0..n]
            \cup SeqsOfLen(BoundaryHits(n, c), 2, MaxFeatures)
    ELSE {<<0>>}

\* the requests of tree-importance and SHAP selection: top_k, threshold
\* or neither
TreeRequest(method) ==
    \E s \in ScoreVectors, m \in {"random_forest", "xgboost"},
       k \in {<<>>} \cup {<<v>> : v \in TopKValues},
       t \in {<<>>} \cup {<<v>> : v \in ThresholdValues} :
        /\ ~(k # <<>> /\ t # <<>>)
        /\ request = [method |-> method, scores |-> s, model_type |-> m,
                      top_k |-> k, threshold |-> t]

LassoRequest ==
    \E s \in ScoreVectors : request = [method |-> "lasso", scores |-> s]

WoeIvRequest ==
    \E s \in ScoreVectors, b \in NBinsValues, t \in ThresholdValues :
        request = [method |-> "woe_iv", scores |-> s, n_bins |-> b,
                   iv_threshold |-> t]

BorutaRequest ==
    \E n \in IterationCounts, c \in ConfidenceLevels, i \in BOOLEAN :
        \E h \in HitVectors(n, c) :
            request = [method |-> "boruta", hit_counts |-> h,
                       n_iterations |-> n, confidence_level |-> c,
                       include_tentative |-> i]

\* the scores of the features of a request
RequestScores(r) ==
    IF r.method # "boruta" THEN r.scores
    ELSE [i \in DOMAIN r.hit_counts |->
            IF r.n_iterations \in ValidIterationCounts
            THEN HitRateOf[<<r.hit_counts[i], r.n_iterations>>]
            ELSE FZero]

\* the orders in which a build of numpy can leave the features of a
\* request when it sorts them by score: every order that sorts the scores,
\* equal scores in any order
TieOrders(scores) ==
    {p \in Permutations(DOMAIN scores) :
        \A i, j \in DOMAIN scores :
            i < j => FLe(scores[p[i]], scores[p[j]])}

InitFeatureSelection ==
    /\ MemoryIdle
    /\ pc = "select"
    /\ \/ TreeRequest("tree_importance")
       \/ TreeRequest("shap")
       \/ LassoRequest
       \/ WoeIvRequest
       \/ BorutaRequest
    /\ tie_order \in TieOrders(RequestScores(request))
    /\ result = NoResult /\ again = NoResult /\ np_random = 0
    /\ y_true = <<>> /\ y_proba = <<>> /\ threshold = Zero
    /\ ThresholdIdle /\ EvaluationIdle /\ PreprocessingIdle

\* the two calls of np.argsort of a method over the scores
Top(scores) == Argsort(scores, tie_order)
Order(scores) == Argsort(Negated(scores), tie_order)

\* the call of a tree-importance or SHAP request
CallTree(r) ==
    LET params ==
            IF r.method = "shap"
            THEN ShapParams(r.model_type, r.top_k, r.threshold)
            ELSE TreeImportanceParams(r.model_type, r.top_k, r.threshold)
        names == FeatureNames(Len(r.scores))
    IN  IF params.status # "ok" THEN params
        ELSE IF r.method = "shap"
        THEN select_features_shap(names, r.scores, params.value,
                                  Top(r.scores), Order(r.scores))
        ELSE select_features_tree_importance(names, r.scores,
                params.value, Top(r.scores), Order(r.scores))

\* the call of a WoE/IV request with the threshold iv_threshold
CallWoeIv(r, iv_threshold) ==
    LET params == WoeIvParams(r.n_bins, iv_threshold)
    IN  IF params.status # "ok" THEN params
        ELSE select_features_woe_iv(FeatureNames(Len(r.scores)), r.scores,
                                    params.value, Order(r.scores))

\* the call of a Boruta request with the flag include_tentative
CallBoruta(r, include_tentative) ==
    LET params == BorutaParams(r.n_iterations, r.confidence_level,
                               include_tentative)
        n == Len(r.hit_counts)
    IN  IF params.status # "ok" THEN params
        ELSE select_features_boruta(FeatureNames(n), r.hit_counts,
                params.value,
                Order([i \in 1..n |->
                        HitRateOf[<<r.hit_counts[i], r.n_iterations>>]]))

Selected(outcome) ==
    /\ result' = outcome
    /\ pc' = "selected"
    /\ UNCHANGED <<field, values, encoded, codes, decoded, y_true, y_proba,
                   threshold, optimal, evaluated, y_pred, confusion,
                   confidence, request, again, tie_order, np_random,
                   heap, frame>>

SelectTreeImportance ==
    /\ pc = "select" /\ request.method = "tree_importance"
    /\ Selected(CallTree(request))

SelectShap ==
    /\ pc = "select" /\ request.method = "shap"
    /\ Selected(CallTree(request))

SelectLasso ==
    /\ pc = "select" /\ request.method = "lasso"
    /\ Selected(select_features_lasso(FeatureNames(Len(request.scores)),
                    request.scores, Order(request.scores)))

SelectWoeIv ==
    /\ pc = "select" /\ request.method = "woe_iv"
    /\ Selected(CallWoeIv(request, request.iv_threshold))

SelectBoruta ==
    /\ pc = "select" /\ request.method = "boruta"
    /\ Selected(CallBoruta(request, request.include_tentative))

SelectedAgain(changed, outcome) ==
    /\ again' = [changed |-> changed, outcome |-> outcome]
    /\ pc' = "done"
    /\ UNCHANGED <<field, values, encoded, codes, decoded, y_true, y_proba,
                   threshold, optimal, evaluated, y_pred, confusion,
                   confidence, request, result, tie_order, np_random,
                   heap, frame>>

\* a second WoE/IV call on the same data with another threshold
SelectWoeIvAgain ==
    /\ pc = "selected" /\ request.method = "woe_iv"
    /\ result.status = "ok"
    /\ \E t \in ThresholdValues : SelectedAgain(t, CallWoeIv(request, t))

\* a second Boruta call on the same data with the other include_tentative
SelectBorutaAgain ==
    /\ pc = "selected" /\ request.method = "boruta"
    /\ result.status = "ok"
    /\ SelectedAgain(~request.include_tentative,
                     CallBoruta(request, ~request.include_tentative))

NextFeatureSelection ==
    \/ SelectTreeImportance
    \/ SelectShap
    \/ SelectLasso
    \/ SelectWoeIv
    \/ SelectBoruta
    \/ SelectWoeIvAgain
    \/ SelectBorutaAgain

SpecFeatureSelection ==
    InitFeatureSelection /\ [][NextFeatureSelection]_vars
---------------------------------------------------------------------------
(* apps/api/services/feature_selection_service.py.  A request of the       *)
(* service names the method and holds the optional parameter object of     *)
(* every method; the data set is the scores the fit of the method gives    *)
(* its features and, for Boruta, the hit counts of the features.           *)

\* FeatureSelectionMethod: the identifiers of the methods.  "shap" is the
\* member the service and the tests use; the class among the sources
\* lacks it.
FeatureSelectionMethod ==
    {"tree_importance", "lasso", "woe_iv", "boruta", "shap"}

\* LassoParams(C, max_iter)
LassoParams(C, max_iter) ==
    IF /\ FGt(C, FZero) /\ FLe(C, FromInt(10))
       /\ 100 <= max_iter /\ max_iter <= 5000
    THEN Ok([C |-> C, max_iter |-> max_iter])
    ELSE Raise("ValidationError")

\* the parameter objects built without arguments
DefaultTreeImportanceParams == TreeImportanceParams("random_forest", None, None).value
DefaultLassoParams == LassoParams(FOne, MAX_ITER_DEFAULT).value
DefaultWoeIvParams == WoeIvParams(N_BINS_DEFAULT, IV_THRESHOLD_DEFAULT).value
DefaultBorutaParams == BorutaParams(N_ITERATIONS_DEFAULT, CONFIDENCE_LEVEL_DEFAULT, FALSE).value
DefaultShapParams == ShapParams("random_forest", None, None).value

\* request.x_params or XParams(): a parameter object is true
ParamsOr(supplied, default) == IF supplied # None THEN supplied[1] ELSE default

\* a mutant of Dispatchers: SHAP requests run the tree-importance method
Dispatchers_TreeForShap(req) ==
    [tree_importance |-> [func |-> "select_features_tree_importance", params |-> ParamsOr(req.tree_params, DefaultTreeImportanceParams)],
     lasso |-> [func |-> "select_features_lasso", params |-> ParamsOr(req.lasso_params, DefaultLassoParams)],
     woe_iv |-> [func |-> "select_features_woe_iv", params |-> ParamsOr(req.woe_iv_params, DefaultWoeIvParams)],
     boruta |-> [func |-> "select_features_boruta", params |-> ParamsOr(req.boruta_params, DefaultBorutaParams)],
     shap |-> [func |-> "select_features_tree_importance", params |-> ParamsOr(req.shap_params, DefaultShapParams)]]
\* dispatchers: for every method its function and the parameter object of
\* the request, or the default one
Dispatchers(req) ==
    [tree_importance |-> [func |-> "select_features_tree_importance", params |-> ParamsOr(req.tree_params, DefaultTreeImportanceParams)],
     lasso |-> [func |-> "select_features_lasso", params |-> ParamsOr(req.lasso_params, DefaultLassoParams)],
     woe_iv |-> [func |-> "select_features_woe_iv", params |-> ParamsOr(req.woe_iv_params, DefaultWoeIvParams)],
     boruta |-> [func |-> "select_features_boruta", params |-> ParamsOr(req.boruta_params, DefaultBorutaParams)],
     shap |-> [func |-> "select_features_shap", params |-> ParamsOr(req.shap_params, DefaultShapParams)]]

\* the hit rates of the hit counts of n_iterations iterations
HitRates(hit_counts, n_iterations) ==
    [i \in DOMAIN hit_counts |-> HitRateOf[<<hit_counts[i], n_iterations>>]]

\* func(X, y, feature_names, params, random_state=request.random_state)
CallMethod(func, params, req) ==
    LET names == FeatureNames(Len(req.scores))
    IN  CASE func = "select_features_tree_importance" ->
                select_features_tree_importance(names, req.scores, params,
                    Top(req.scores), Order(req.scores))
          [] func = "select_features_lasso" ->
                select_features_lasso(names, req.scores, Order(req.scores))
          [] func = "select_features_woe_iv" ->
                select_features_woe_iv(names, req.scores, params,
                                       Order(req.scores))
          [] func = "select_features_boruta" ->
                select_features_boruta(FeatureNames(Len(req.hit_counts)),
                    req.hit_counts, params,
                    Order(HitRates(req.hit_counts, params.n_iterations)))
          [] func = "select_features_shap" ->
                select_features_shap(names, req.scores, params,
                    Top(req.scores), Order(req.scores))

\* run_feature_selection(request, dataset_path); a method that is not a
\* FeatureSelectionMethod fails the validation of the request
run_feature_selection(req) ==
    IF req.method \notin FeatureSelectionMethod
    THEN Raise("ValidationError")
    ELSE CallMethod(Dispatchers(req)[req.method].func,
                    Dispatchers(req)[req.method].params, req)

\* the parameter objects a request can hold: for every method one that
\* differs from the default one
SuppliedParams ==
    Tabulated(
    [tree_importance |-> <<TreeImportanceParams("xgboost", <<1>>, None).value>>,
     lasso |-> <<LassoParams(FHalf, 100).value>>,
     woe_iv |-> <<WoeIvParams(N_BINS_MIN, FDivInt(1, 4)).value>>,
     boruta |-> <<BorutaParams(N_ITERATIONS_MIN, CONFIDENCE_LEVEL_MAX, TRUE).value>>,
     shap |-> <<ShapParams("xgboost", None, <<FDivInt(1, 4)>>).value>>])

\* the parameter field of the method of a request for the method m: the
\* object of the requested method is there or not (own), and so are those
\* of the other methods (others)
ParamsField(of, m, own, others, supplied) ==
    IF (of = m /\ own) \/ (of # m /\ others) THEN supplied[of] ELSE None

\* the request for the method m, without its data
ServiceRequest(m, own, others, supplied) ==
    [method |-> m,
     tree_params |-> ParamsField("tree_importance", m, own, others, supplied),
     lasso_params |-> ParamsField("lasso", m, own, others, supplied),
     woe_iv_params |-> ParamsField("woe_iv", m, own, others, supplied),
     boruta_params |-> ParamsField("boruta", m, own, others, supplied),
     shap_params |-> ParamsField("shap", m, own, others, supplied),
     scores |-> <<>>, hit_counts |-> <<>>]

\* the method identifiers of the requests: the five methods and one that
\* is none
RequestedMethods == FeatureSelectionMethod \cup {"nonexistent"}

\* the hit counts a Boruta run with the parameters params can end with:
\* for one feature no hit, every hit and the counts around the cuts, for
\* more features the counts around the cuts
DispatchedHits(params) ==
    LET cuts == BoundaryHits(params.n_iterations, params.confidence_level)
    IN  [1..1 -> cuts \cup {0, params.n_iterations}]
            \cup SeqsOfLen(cuts, 2, MaxFeatures)

\* the scores the features of the request are ordered by
DispatchedScores(req) ==
    IF req.method = "boruta"
    THEN HitRates(req.hit_counts,
                  ParamsOr(req.boruta_params, DefaultBorutaParams).n_iterations)
    ELSE req.scores

InitDispatch ==
    /\ MemoryIdle
    /\ pc = "dispatch"
    /\ \E m \in RequestedMethods, own \in BOOLEAN, others \in BOOLEAN,
          supplied \in {SuppliedParams} :
          \E req \in {ServiceRequest(m, own, others, supplied)} :
              IF m = "boruta"
              THEN \E params \in {ParamsOr(req.boruta_params,
                                            DefaultBorutaParams)} :
                      \E h \in DispatchedHits(params) :
                          request = [req EXCEPT !.hit_counts = h]
              ELSE \E v \in ScoreVectors :
                      request = [req EXCEPT !.scores = v]
    /\ tie_order \in TieOrders(DispatchedScores(request))
    /\ result = NoResult /\ again = NoResult /\ np_random = 0
    /\ ThresholdIdle /\ EvaluationIdle /\ PreprocessingIdle

RunFeatureSelection ==
    /\ pc = "dispatch"
    /\ result' = run_feature_selection(request)
    /\ pc' = "done"
    /\ UNCHANGED <<field, values, encoded, codes, decoded, y_true, y_proba,
                   threshold, optimal, evaluated, y_pred, confusion,
                   confidence, request, again, tie_order, np_random,
                   heap, frame>>

NextDispatch == RunFeatureSelection

SpecDispatch == InitDispatch /\ [][NextDispatch]_vars

\* the parameter object the method of the request is to run with
ParamsInForce ==
    CASE request.method = "tree_importance" ->
            IF request.tree_params = None
            THEN [model_type |-> "random_forest", top_k |-> None,
                  threshold |-> None]
            ELSE request.tree_params[1]
      [] request.method = "lasso" ->
            IF request.lasso_params = None
            THEN [C |-> FOne, max_iter |-> 1000]
            ELSE request.lasso_params[1]
      [] request.method = "woe_iv" ->
            IF request.woe_iv_params = None
            THEN [n_bins |-> 10, iv_threshold |-> FDivInt(1, 10)]
            ELSE request.woe_iv_params[1]
      [] request.method = "boruta" ->
            IF request.boruta_params = None
            THEN [n_iterations |-> 100, confidence_level |-> FDivInt(95, 100),
                  include_tentative |-> FALSE]
            ELSE request.boruta_params[1]
      [] request.method = "shap" ->
            IF request.shap_params = None THEN DefaultShapParams
            ELSE request.shap_params[1]

\* the selection function of the method of the request, called directly
MatchingSelection ==
    LET names == FeatureNames(Len(request.scores))
        top == Top(request.scores)
        order == Order(request.scores)
    IN  CASE request.method = "tree_importance" ->
                select_features_tree_importance(names, request.scores,
                    ParamsInForce, top, order)
          [] request.method = "lasso" ->
                select_features_lasso(names, request.scores, order)
          [] request.method = "woe_iv" ->
                select_features_woe_iv(names, request.scores, ParamsInForce,
                                       order)
          [] request.method = "boruta" ->
                select_features_boruta(
                    FeatureNames(Len(request.hit_counts)),
                    request.hit_counts, ParamsInForce,
                    Order(DispatchedScores(request)))
          [] request.method = "shap" ->
                select_features_shap(names, request.scores, ParamsInForce,
                                     top, order)

---------------------------------------------------------------------------
(* shared/logic/feature_selection.py: _calculate_iv_for_feature.  The      *)
(* column of the feature is held in codes and the target in y_true.  The   *)
(* shares of the bins are exact rationals; the information value is the    *)
(* list of the terms of its sum, one per bin that holds both classes: the  *)
(* term (pct_good - pct_bad) * log(pct_good / pct_bad) is 0.0 when the two *)
(* shares are equal and positive otherwise.                                *)

RAdd(x, y) == Rat(x.n * y.d + y.n * x.d, x.d * y.d)
RSub(x, y) == Rat(x.n * y.d - y.n * x.d, x.d * y.d)
RMul(x, y) == Rat(x.n * y.n, x.d * y.d)

\* np.unique(a): the distinct values in ascending order
Unique(a) ==
    LET desc == SortDesc(Elems(a))
    IN  [k \in DOMAIN desc |-> desc[Len(desc) + 1 - k]]

\* np.sort(a): the values in ascending order
RECURSIVE Sorted(_)
Sorted(a) ==
    IF a = <<>> THEN <<>>
    ELSE LET k == CHOOSE i \in DOMAIN a : \A j \in DOMAIN a : RLe(a[i], a[j])
         IN  <<a[k]>> \o Sorted([i \in 1..(Len(a) - 1) |->
                                    IF i < k THEN a[i] ELSE a[i + 1]])

\* np.percentile(a, 100 * k / n_bins) of the sorted array: linear
\* interpolation between the two values around the index (n - 1) * k / n_bins
Percentile(sorted, k, n_bins) ==
    LET n == Len(sorted)
        lo == ((n - 1) * k) \div n_bins
        gamma == Rat((n - 1) * k - lo * n_bins, n_bins)
        below == sorted[lo + 1]
        above == sorted[IF lo + 2 <= n THEN lo + 2 ELSE n]
    IN  RAdd(below, RMul(RSub(above, below), gamma))

\* bin_edges: the percentiles of np.linspace(0, 100, n_bins + 1), duplicate
\* edges collapsed
BinEdges(feature_values, n_bins) ==
    LET sorted == Sorted(feature_values)
    IN  Unique([k \in 1..(n_bins + 1) |-> Percentile(sorted, k - 1, n_bins)])

\* np.digitize(x, bin_edges[1:-1]): how many inner edges are <= x
Digitize(x, bin_edges) ==
    Count({k \in 2..(Len(bin_edges) - 1) : RLe(bin_edges[k], x)})

\* bin_indices: feature_values.astype(int) for a column of at most two
\* distinct values, the quantile bins otherwise
BinIndices(feature_values, n_bins) ==
    IF Cardinality(Elems(feature_values)) <= 2
    THEN [i \in DOMAIN feature_values |-> PyInt(feature_values[i])]
    ELSE LET bin_edges == BinEdges(feature_values, n_bins)
         IN  [i \in DOMAIN feature_values |->
                Digitize(feature_values[i], bin_edges)]

\* max(count, 1)
AtLeastOne(count) == IF count > 1 THEN count ELSE 1

\* the samples of the class c in the bin bin_val
InBin(target, bin_indices, c, bin_val) ==
    {i \in DOMAIN target : target[i] = c /\ bin_indices[i] = bin_val}

\* the terms of iv: for every bin that holds both classes, in the order of
\* np.unique(bin_indices), its pct_good and pct_bad
IvTerms(target, bin_indices) ==
    LET total_good == AtLeastOne(Count({i \in DOMAIN target : target[i] = 0}))
        total_bad == AtLeastOne(Count({i \in DOMAIN target : target[i] = 1}))
        bin_vals == SortAsc(Elems(bin_indices))
        both == {k \in DOMAIN bin_vals :
                    /\ InBin(target, bin_indices, 0, bin_vals[k]) # {}
                    /\ InBin(target, bin_indices, 1, bin_vals[k]) # {}}
        kept == Pick(bin_vals, both, 1)
    IN  [k \in DOMAIN kept |->
            [pct_good |-> Rat(Count(InBin(target, bin_indices, 0, kept[k])),
                              total_good),
             pct_bad |-> Rat(Count(InBin(target, bin_indices, 1, kept[k])),
                             total_bad)]]

\* _calculate_iv_for_feature(feature_values, target, n_bins): the bins of
\* the samples and the information value
calculate_iv_for_feature(feature_values, target, n_bins) ==
    LET bin_indices == BinIndices(feature_values, n_bins)
    IN  Ok([bin_indices |-> bin_indices,
            iv |-> IvTerms(target, bin_indices)])

\* iv == 0.0: no term of the sum is positive
IvIsZero(iv) == \A k \in DOMAIN iv : iv[k].pct_good = iv[k].pct_bad

\* the values of a feature column: the two values of a one-hot column,
\* values between them and a negative one
FeatureValues == {Rat(-1, 2), Zero, Rat(1, 5), Rat(7, 10), One}

InitInformationValue ==
    /\ MemoryIdle
    /\ pc = "iv"
    /\ codes \in SeqsUpTo(FeatureValues, MaxLen)
    /\ y_true \in SeqsUpTo(Labels, MaxLen)
    /\ Len(codes) = Len(y_true)
    /\ request \in {[n_bins |-> b] : b \in {N_BINS_MIN, N_BINS_DEFAULT}}
    /\ result = NoResult /\ again = NoResult
    /\ tie_order = <<>> /\ np_random = 0
    /\ field = "" /\ values = <<>> /\ encoded = NoResult
    /\ decoded = NoResult
    /\ y_proba = <<>> /\ threshold = Zero
    /\ optimal = NoResult /\ evaluated = NoResult
    /\ EvaluationIdle

CalculateIvForFeature ==
    /\ pc = "iv"
    /\ result' = calculate_iv_for_feature(codes, y_true, request.n_bins)
    /\ pc' = "done"
    /\ UNCHANGED <<field, values, encoded, codes, decoded, y_true, y_proba,
                   threshold, optimal, evaluated, y_pred, confusion,
                   confidence, request, again, tie_order, np_random,
                   heap, frame>>

NextInformationValue == CalculateIvForFeature

SpecInformationValue ==
    InitInformationValue /\ [][NextInformationValue]_vars

\* the information value of a column of at most two distinct values has
\* been computed
FewValuesBinned ==
    pc = "done" /\ result.status = "ok" /\ Cardinality(Elems(codes)) <= 2

\* C26 as claimed: for a column of at most two distinct values, whatever
\* the values, two samples are in the same bin exactly when they have the
\* same value; a column of one value forms one bin, has the information
\* value 0 and raises nothing.
C26_Original ==
    /\ FewValuesBinned
          => \A i, j \in DOMAIN codes :
                (result.value.bin_indices[i] = result.value.bin_indices[j])
                    <=> (codes[i] = codes[j])
    /\ (pc = "done" /\ Cardinality(Elems(codes)) = 1)
          => /\ result.status = "ok"
             /\ Cardinality(Elems(result.value.bin_indices)) = 1
             /\ IvIsZero(result.value.iv)

\* C26 as the code behaves: for a column of at most two distinct values the
\* bin of a sample is the integer part of its value, so two samples are in
\* the same bin exactly when their values have the same integer part; a
\* column of one value forms one bin, has the information value 0 and
\* raises nothing.
C26_BinnedByIntegerPart ==
    /\ FewValuesBinned
          => \A i, j \in DOMAIN codes :
                /\ result.value.bin_indices[i] = PyInt(codes[i])
                /\ (result.value.bin_indices[i] = result.value.bin_indices[j])
                      <=> (PyInt(codes[i]) = PyInt(codes[j]))
    /\ (pc = "done" /\ Cardinality(Elems(codes)) = 1)
          => /\ result.status = "ok"
             /\ Cardinality(Elems(result.value.bin_indices)) = 1
             /\ IvIsZero(result.value.iv)

C26_Witness ==
    /\ FewValuesBinned
    /\ codes = <<Rat(1, 5), Rat(1, 5), Rat(7, 10)>>
    /\ y_true = <<0, 1, 0>>
    /\ result.value.bin_indices = <<0, 0, 0>>
    /\ IvIsZero(result.value.iv)

---------------------------------------------------------------------------
(* Two calls of a method with the same arguments and the same seed, and    *)
(* calls of other code between them.  A random generator is the stream of  *)
(* numbers it will give: np.random.RandomState(seed) is the stream of the  *)
(* seed, and np_random is the stream the module-level functions of         *)
(* np.random draw from.  The fits of the library are functions of their    *)
(* arguments, random_state among them, so for one request the outcome of   *)
(* the random steps and the fits is a function of the stream the steps     *)
(* draw from: the request holds it in drawn.                               *)

Streams == 0..MaxStream
Seeds == {42, 43}

\* np.random.RandomState(seed)
RandomState(seed) == seed % (MaxStream + 1)

\* a mutant of Generator: the module-level functions np.random.shuffle and
\* np.random.choice, which draw from the global state
Generator_Global(random_state, global) == global
\* the generator the random steps of a method draw from:
\* rng = np.random.RandomState(random_state) in select_features_boruta,
\* np.random.RandomState(random_state).choice in select_features_shap
Generator(random_state, global) == RandomState(random_state)

\* hit counts and scores of a single feature
SeededHits ==
    [1..1 -> BoundaryHits(N_ITERATIONS_MIN, CONFIDENCE_LEVEL_MAX)]
SeededScores == [1..1 -> ScoreValues]

SeededRequests ==
    {[method |-> "boruta", random_state |-> s, drawn |-> d,
      include_tentative |-> i] :
        s \in Seeds, d \in [Streams -> SeededHits], i \in BOOLEAN}
    \cup {[method |-> "shap", random_state |-> s, drawn |-> d,
           subsampled |-> b, full |-> f] :
            s \in Seeds, d \in [Streams -> SeededScores], b \in BOOLEAN,
            f \in SeededScores}

\* a call of the method of request r while the global state is global
CallSeeded(r, global) ==
    IF r.method = "boruta"
    THEN CallBoruta([method |-> "boruta",
                     hit_counts |->
                        r.drawn[Generator(r.random_state, global)],
                     n_iterations |-> N_ITERATIONS_MIN,
                     confidence_level |-> CONFIDENCE_LEVEL_MAX],
                    r.include_tentative)
    ELSE CallTree([method |-> "shap",
                   \* if X.shape[0] > params.sample_size: a random sample
                   scores |-> IF r.subsampled
                              THEN r.drawn[Generator(r.random_state,
                                                     global)]
                              ELSE r.full,
                   model_type |-> "random_forest", top_k |-> <<>>,
                   threshold |-> <<>>])

InitDeterminism ==
    /\ MemoryIdle
    /\ pc = "first"
    /\ request \in SeededRequests
    /\ np_random \in Streams
    /\ tie_order \in TieOrders(<<FZero>>)
    /\ result = NoResult /\ again = NoResult
    /\ y_true = <<>> /\ y_proba = <<>> /\ threshold = Zero
    /\ ThresholdIdle /\ EvaluationIdle /\ PreprocessingIdle

FirstCall ==
    /\ pc = "first"
    /\ result' = CallSeeded(request, np_random)
    /\ pc' = "between"
    /\ UNCHANGED <<field, values, encoded, codes, decoded, y_true, y_proba,
                   threshold, optimal, evaluated, y_pred, confusion,
                   confidence, request, again, tie_order, np_random,
                   heap, frame>>

\* other code draws from the global generator or seeds it
UnrelatedCall ==
    /\ pc = "between"
    /\ np_random' \in Streams \ {np_random}
    /\ UNCHANGED <<pc, field, values, encoded, codes, decoded, y_true,
                   y_proba, threshold, optimal, evaluated, y_pred,
                   confusion, confidence, request, result, again,
                   tie_order,
                   heap, frame>>

SecondCall ==
    /\ pc = "between"
    /\ again' = [changed |-> np_random,
                 outcome |-> CallSeeded(request, np_random)]
    /\ pc' = "repeated"
    /\ UNCHANGED <<field, values, encoded, codes, decoded, y_true, y_proba,
                   threshold, optimal, evaluated, y_pred, confusion,
                   confidence, request, result, tie_order, np_random,
                   heap, frame>>

NextDeterminism ==
    \/ FirstCall
    \/ UnrelatedCall
    \/ SecondCall

SpecDeterminism == InitDeterminism /\ [][NextDeterminism]_vars
---------------------------------------------------------------------------
(* The iterations of select_features_boruta, step by step.  An array is    *)
(* an object in memory: heap gives the array at an address, and a name     *)
(* holds an address.  The caller's matrix X and label vector y are at the  *)
(* addresses the request holds; frame holds the local names of the call.   *)
(* A matrix is the sequence of its rows.  The fit of the random forest is  *)
(* library code that reads its arguments; the request holds the hit        *)
(* counts the features end with, and a feature gets its hits in its first  *)
(* iterations.                                                             *)

\* the lowest address that holds no array
FreshAddress(h) == CHOOSE a \in 1..(Cardinality(DOMAIN h) + 1) : a \notin DOMAIN h

\* the memory h with the array at the address a
Store(h, a, array) == [b \in DOMAIN h \cup {a} |-> IF b = a THEN array ELSE h[b]]

\* the memory h without the arrays at the addresses of A
Release(h, A) == [b \in DOMAIN h \ A |-> h[b]]

\* a mutant of Copy: the name is bound to the array itself, X_shadow = X
Copy_Alias(h, a) == [heap |-> h, address |-> a]
\* X.copy(): a new array with the values of the array at a
Copy(h, a) ==
    [heap |-> Store(h, FreshAddress(h), h[a]), address |-> FreshAddress(h)]

\* the matrix with column j in the order p: what rng.shuffle(M[:, j]) leaves
\* when it draws the permutation p; the view M[:, j] is the memory of M
ShuffledColumn(matrix, j, p) ==
    [r \in DOMAIN matrix |->
        [c \in DOMAIN matrix[r] |->
            IF c = j THEN matrix[p[r]][c] ELSE matrix[r][c]]]

\* np.hstack([A, B]): a new matrix, the columns of A and then those of B
hstack(A, B) == [r \in DOMAIN A |-> A[r] \o B[r]]

\* M[:, :n]: the first n columns
FirstColumns(matrix, n) ==
    [r \in DOMAIN matrix |-> [c \in 1..n |-> matrix[r][c]]]

\* the caller's matrices: two samples of one or two features
BorutaMatrices ==
    {<< <<1>>, <<2>> >>, << <<1, 3>>, <<2, 4>> >>, << <<1, 1>>, <<1, 2>> >>}

InitBorutaLoop ==
    /\ pc = "boruta"
    /\ \E X \in BorutaMatrices, y \in {<<0, 1>>, <<1, 1>>}, i \in BOOLEAN :
          \E h \in [1..Len(X[1]) ->
                        BoundaryHits(N_ITERATIONS_MIN, CONFIDENCE_LEVEL_MAX)] :
              /\ request = [method |-> "boruta", X |-> 1, y |-> 2,
                            before |-> [X |-> X, y |-> y],
                            hit_counts |-> h,
                            params |-> BorutaParams(N_ITERATIONS_MIN,
                                           CONFIDENCE_LEVEL_MAX, i).value,
                            random_state |-> 42]
              /\ heap = [a \in {1, 2} |-> IF a = 1 THEN X ELSE y]
    /\ frame = NoResult
    /\ tie_order \in TieOrders(HitRates(request.hit_counts,
                                        request.params.n_iterations))
    /\ result = NoResult /\ again = NoResult /\ np_random = 0
    /\ ThresholdIdle /\ EvaluationIdle /\ PreprocessingIdle

\* rng, n_features and hit_counts before the loop
BorutaBegin ==
    /\ pc = "boruta"
    /\ frame' = [rng |-> RandomState(request.random_state),
                 n_features |-> Len(heap[request.X][1]),
                 hit_counts |-> [f \in 1..Len(heap[request.X][1]) |-> 0],
                 iteration |-> 0, j |-> 0, X_shadow |-> 0, X_combined |-> 0]
    /\ pc' = "iteration"
    /\ UNCHANGED <<field, values, encoded, codes, decoded, y_true, y_proba,
                   threshold, optimal, evaluated, y_pred, confusion,
                   confidence, request, result, again, tie_order, np_random,
                   heap>>

\* X_shadow = X.copy() at the start of an iteration; the arrays of the
\* iteration before are no longer referred to
CopyShadow ==
    /\ pc = "iteration" /\ frame.iteration < request.params.n_iterations
    /\ \E copied \in {Copy(Release(heap, {frame.X_shadow, frame.X_combined}), request.X)} :
          /\ heap' = copied.heap
          /\ frame' = [frame EXCEPT !.X_shadow = copied.address, !.j = 0,
                                    !.X_combined = 0]
    /\ pc' = "shuffle"
    /\ UNCHANGED <<field, values, encoded, codes, decoded, y_true, y_proba,
                   threshold, optimal, evaluated, y_pred, confusion,
                   confidence, request, result, again, tie_order, np_random>>

\* rng.shuffle(X_shadow[:, j]) for the next column j
ShuffleColumn ==
    /\ pc = "shuffle" /\ frame.j < frame.n_features
    /\ \E p \in Permutations(DOMAIN heap[frame.X_shadow]) :
          heap' = Store(heap, frame.X_shadow,
                        ShuffledColumn(heap[frame.X_shadow], frame.j + 1, p))
    /\ frame' = [frame EXCEPT !.j = frame.j + 1]
    /\ UNCHANGED <<pc, field, values, encoded, codes, decoded, y_true,
                   y_proba, threshold, optimal, evaluated, y_pred, confusion,
                   confidence, request, result, again, tie_order, np_random>>

\* X_combined = np.hstack([X, X_shadow]) after the last column
StackColumns ==
    /\ pc = "shuffle" /\ frame.j = frame.n_features
    /\ \E a \in {FreshAddress(heap)} :
          /\ heap' = Store(heap, a, hstack(heap[request.X],
                                           heap[frame.X_shadow]))
          /\ frame' = [frame EXCEPT !.X_combined = a]
    /\ pc' = "fit"
    /\ UNCHANGED <<field, values, encoded, codes, decoded, y_true, y_proba,
                   threshold, optimal, evaluated, y_pred, confusion,
                   confidence, request, result, again, tie_order, np_random>>

\* rf.fit(X_combined, y) and hit_counts += (real_importances > max_shadow)
FitAndCount ==
    /\ pc = "fit"
    /\ frame' = [frame EXCEPT
                    !.hit_counts = [f \in DOMAIN frame.hit_counts |->
                        IF frame.iteration < request.hit_counts[f]
                        THEN frame.hit_counts[f] + 1
                        ELSE frame.hit_counts[f]],
                    !.iteration = frame.iteration + 1]
    /\ pc' = "iteration"
    /\ UNCHANGED <<field, values, encoded, codes, decoded, y_true, y_proba,
                   threshold, optimal, evaluated, y_pred, confusion,
                   confidence, request, result, again, tie_order, np_random,
                   heap>>

\* the end of the loop
LeaveLoop ==
    /\ pc = "iteration" /\ frame.iteration = request.params.n_iterations
    /\ pc' = "classify"
    /\ UNCHANGED <<field, values, encoded, codes, decoded, y_true, y_proba,
                   threshold, optimal, evaluated, y_pred, confusion,
                   confidence, request, result, again, tie_order, np_random,
                   heap, frame>>

\* the classification of the hit counts and the return: the local arrays
\* are no longer referred to
ClassifyAndReturn ==
    /\ pc = "classify"
    /\ result' = select_features_boruta(FeatureNames(frame.n_features),
                    frame.hit_counts, request.params,
                    Order(HitRates(frame.hit_counts,
                                   request.params.n_iterations)))
    /\ heap' = Release(heap, {frame.X_shadow, frame.X_combined})
    /\ frame' = NoResult
    /\ pc' = "done"
    /\ UNCHANGED <<field, values, encoded, codes, decoded, y_true, y_proba,
                   threshold, optimal, evaluated, y_pred, confusion,
                   confidence, request, again, tie_order, np_random>>

NextBorutaLoop ==
    \/ BorutaBegin
    \/ CopyShadow
    \/ ShuffleColumn
    \/ StackColumns
    \/ FitAndCount
    \/ LeaveLoop
    \/ ClassifyAndReturn

SpecBorutaLoop == InitBorutaLoop /\ [][NextBorutaLoop]_vars

\* C28: at every step of select_features_boruta, and after it has
\* returned, the caller's X and y hold the values they had before the
\* call; the shadow matrix is an array of its own, and the first
\* n_features columns of the matrix handed to the classifier are the
\* caller's X, column by column.
C28_CallerArraysUnchanged ==
    /\ heap[request.X] = request.before.X
    /\ heap[request.y] = request.before.y
    /\ pc \in {"shuffle", "fit"} => frame.X_shadow \notin {request.X, request.y}
    /\ pc = "fit"
          => FirstColumns(heap[frame.X_combined], frame.n_features)
                = request.before.X
    /\ pc = "done" => result.status = "ok" /\ DOMAIN heap = {request.X, request.y}

C28_Witness ==
    /\ pc = "classify"
    /\ frame.iteration = request.params.n_iterations
    /\ request.before.X = << <<1, 3>>, <<2, 4>> >>
    /\ heap[frame.X_shadow] = << <<2, 4>>, <<1, 3>> >>
    /\ heap[request.X] = << <<1, 3>>, <<2, 4>> >>
    /\ heap[frame.X_combined] = << <<1, 3, 2, 4>>, <<2, 4, 1, 3>> >>

---------------------------------------------------------------------------
(* shared/constants.py, shared/logic/preprocessing.py:                     *)
(* loan_application_to_feature_vector, and apps/api/services/inference.py: *)
(* loan_application_to_features.  A name is the sequence of its parts      *)
(* between underscores, "loan_grade_A" is <<"loan", "grade", "A">>: a      *)
(* name starts with f"{field_name}_" exactly when its parts start with     *)
(* the parts of field_name and go on, and the rest of the name is the      *)
(* rest of the parts.                                                      *)

NUMERIC_FEATURES ==
    << <<"person", "age">>, <<"person", "income">>,
       <<"person", "emp", "length">>, <<"loan", "amnt">>,
       <<"loan", "int", "rate">>, <<"loan", "percent", "income">>,
       <<"cb", "person", "cred", "hist", "length">> >>

CATEGORICAL_FEATURES_ENCODED ==
    << <<"person", "home", "ownership", "MORTGAGE">>,
       <<"person", "home", "ownership", "OTHER">>,
       <<"person", "home", "ownership", "OWN">>,
       <<"person", "home", "ownership", "RENT">>,
       <<"loan", "intent", "DEBTCONSOLIDATION">>,
       <<"loan", "intent", "EDUCATION">>,
       <<"loan", "intent", "HOMEIMPROVEMENT">>,
       <<"loan", "intent", "MEDICAL">>,
       <<"loan", "intent", "PERSONAL">>,
       <<"loan", "intent", "VENTURE">>,
       <<"loan", "grade", "A">>, <<"loan", "grade", "B">>,
       <<"loan", "grade", "C">>, <<"loan", "grade", "D">>,
       <<"loan", "grade", "E">>, <<"loan", "grade", "F">>,
       <<"loan", "grade", "G">>,
       <<"cb", "person", "default", "on", "file", "N">>,
       <<"cb", "person", "default", "on", "file", "Y">> >>

CATEGORICAL_FEATURES ==
    << <<"person", "home", "ownership">>, <<"loan", "intent">>,
       <<"loan", "grade">>, <<"cb", "person", "default", "on", "file">> >>

ALL_FEATURES == NUMERIC_FEATURES \o CATEGORICAL_FEATURES_ENCODED

\* the name as the string it is
RECURSIVE Join(_)
Join(parts) ==
    IF Len(parts) = 1 THEN parts[1]
    ELSE parts[1] \o "_" \o Join(Tail(parts))

\* the parts of a name after its first n parts
Rest(parts, n) == SubSeq(parts, n + 1, Len(parts))

\* col_name.startswith(f"{field_name}_")
StartsWithField(col_name, field_name) ==
    /\ Len(col_name) > Len(field_name)
    /\ SubSeq(col_name, 1, Len(field_name)) = field_name

\* float() of the seven numeric fields, in the order both functions write
NumericValues(application) ==
    <<FromInt(application.person_age), application.person_income,
      application.person_emp_length, application.loan_amnt,
      application.loan_int_rate, application.loan_percent_income,
      FromInt(application.cb_person_cred_hist_length)>>

\* field_values: the pairs of the dict, in the order of insertion
FieldValuePairs(application) ==
    << <<CATEGORICAL_FEATURES[1], application.person_home_ownership>>,
       <<CATEGORICAL_FEATURES[2], application.loan_intent>>,
       <<CATEGORICAL_FEATURES[3], application.loan_grade>>,
       <<CATEGORICAL_FEATURES[4], application.cb_person_default_on_file>> >>

\* the inner loop from pair k on: the value of the column under the first
\* field whose prefix the column name starts with, or no match
RECURSIVE MatchColumn(_, _, _)
MatchColumn(col_name, field_values, k) ==
    IF k > Len(field_values) THEN Raise("no matching field")
    ELSE IF StartsWithField(col_name, field_values[k][1])
         THEN Ok(IF <<field_values[k][2]>>
                       = Rest(col_name, Len(field_values[k][1]))
                 THEN FOne ELSE FZero)
         ELSE MatchColumn(col_name, field_values, k + 1)

\* the outer loop over the columns from column c on
RECURSIVE CategoricalValues(_, _, _, _)
CategoricalValues(columns, field_values, c, acc) ==
    IF c > Len(columns) THEN Ok(acc)
    ELSE IF MatchColumn(columns[c], field_values, 1).status # "ok"
         THEN Raise("Unknown encoded column")
         ELSE CategoricalValues(columns, field_values, c + 1,
                  Append(acc, MatchColumn(columns[c], field_values, 1).value))

loan_application_to_feature_vector(application) ==
    Only({IF categorical_values.status # "ok" THEN categorical_values
          ELSE Ok(NumericValues(application) \o categorical_values.value)
            : categorical_values \in
                  {CategoricalValues(CATEGORICAL_FEATURES_ENCODED,
                       FieldValuePairs(application), 1, <<>>)}})

\* the offset tables of the API
home_map ==
    "MORTGAGE" :> 0 @@ "OTHER" :> 1 @@ "OWN" :> 2 @@ "RENT" :> 3
\* a mutant of intent_map: the offsets of two intents exchanged
intent_map_Exchanged ==
    "DEBTCONSOLIDATION" :> 0 @@ "EDUCATION" :> 1 @@
    "HOMEIMPROVEMENT" :> 2 @@ "MEDICAL" :> 4 @@ "PERSONAL" :> 3 @@
    "VENTURE" :> 5
intent_map ==
    "DEBTCONSOLIDATION" :> 0 @@ "EDUCATION" :> 1 @@
    "HOMEIMPROVEMENT" :> 2 @@ "MEDICAL" :> 3 @@ "PERSONAL" :> 4 @@
    "VENTURE" :> 5
grade_map ==
    "A" :> 0 @@ "B" :> 1 @@ "C" :> 2 @@ "D" :> 3 @@ "E" :> 4 @@ "F" :> 5 @@
    "G" :> 6
default_map ==
    "N" :> 0 @@ "Y" :> 1

\* [0.0] * n with 1.0 written at the offset the table gives the value; a
\* value the table lacks is a KeyError
OneHotAt(offsets, value, n) ==
    IF value \notin DOMAIN offsets THEN Raise("KeyError")
    ELSE Ok([i \in 1..n |-> IF i - 1 = offsets[value] THEN FOne ELSE FZero])

\* the API's expansion
loan_application_to_features(application) ==
    Only({IF \E e \in {home, intent, grade, default} : e.status # "ok"
          THEN Raise("KeyError")
          ELSE Ok(NumericValues(application) \o home.value \o intent.value
                      \o grade.value \o default.value)
            : home \in {OneHotAt(home_map,
                                  application.person_home_ownership, 4)},
              intent \in {OneHotAt(intent_map, application.loan_intent, 6)},
              grade \in {OneHotAt(grade_map, application.loan_grade, 7)},
              default \in {OneHotAt(default_map,
                               application.cb_person_default_on_file, 2)}})

\* the values the schema LoanApplication admits for the categorical fields
HomeOwnerships == {"RENT", "OWN", "MORTGAGE", "OTHER"}
LoanIntents ==
    {"EDUCATION", "MEDICAL", "VENTURE", "PERSONAL", "DEBTCONSOLIDATION",
     "HOMEIMPROVEMENT"}
LoanGrades == {"A", "B", "C", "D", "E", "F", "G"}
DefaultsOnFile == {"Y", "N"}

\* person_age is an int of 18 to 120
PERSON_AGE_MIN == 18
PERSON_AGE_MAX == 120

\* valid applications: every category, the ages at both ends of the range,
\* and numeric values that differ from field to field
InitExpansion ==
    /\ MemoryIdle
    /\ pc = "expand"
    /\ \E age \in {PERSON_AGE_MIN, PERSON_AGE_MAX},
          home \in HomeOwnerships, intent \in LoanIntents,
          grade \in LoanGrades, default \in DefaultsOnFile,
          income \in {FromInt(50000)}, emp \in {FromInt(3)},
          amnt \in {FromInt(10000)}, rate \in {FDivInt(21, 2)},
          percent \in {FDivInt(1, 5)} :
          request = [person_age |-> age, person_income |-> income,
                     person_emp_length |-> emp, loan_amnt |-> amnt,
                     loan_int_rate |-> rate, loan_percent_income |-> percent,
                     cb_person_cred_hist_length |-> 5,
                     person_home_ownership |-> home, loan_intent |-> intent,
                     loan_grade |-> grade,
                     cb_person_default_on_file |-> default]
    /\ result = NoResult /\ again = NoResult
    /\ tie_order = <<>> /\ np_random = 0
    /\ ThresholdIdle /\ EvaluationIdle /\ PreprocessingIdle

\* the expansion of the shared logic
ExpandFromColumnNames ==
    /\ pc = "expand"
    /\ result' = loan_application_to_feature_vector(request)
    /\ pc' = "expand_api"
    /\ UNCHANGED <<field, values, encoded, codes, decoded, y_true, y_proba,
                   threshold, optimal, evaluated, y_pred, confusion,
                   confidence, request, again, tie_order, np_random, heap,
                   frame>>

\* the expansion of the API for the same application
ExpandFromOffsets ==
    /\ pc = "expand_api"
    /\ again' = loan_application_to_features(request)
    /\ pc' = "done"
    /\ UNCHANGED <<field, values, encoded, codes, decoded, y_true, y_proba,
                   threshold, optimal, evaluated, y_pred, confusion,
                   confidence, request, result, tie_order, np_random, heap,
                   frame>>

NextExpansion == ExpandFromColumnNames \/ ExpandFromOffsets

SpecExpansion == InitExpansion /\ [][NextExpansion]_vars

\* the positions in ALL_FEATURES of the one-hot columns of a field
ColumnsOf(field_name) ==
    {i \in DOMAIN ALL_FEATURES : StartsWithField(ALL_FEATURES[i], field_name)}

---------------------------------------------------------------------------
(* shared/logic/preprocessing.py: undersample_majority_class.  The         *)
(* generator rng is the numbers its stream gives and the place in the      *)
(* stream; a stream is given as the numbers of one period.  shuffle and    *)
(* permutation of RandomState exchange the elements from the last to the   *)
(* second with an element drawn at or before them, and choice without      *)
(* replacement takes the first elements of a permutation.  An array is     *)
(* indexed from 1, so the index i of numpy is the position i + 1.          *)

\* the number the generator gives at place k of its stream
RawAt(raw, k) == raw[((k - 1) % Len(raw)) + 1]

\* x with the elements at the positions a and b exchanged
Exchanged(x, a, b) ==
    [k \in DOMAIN x |-> IF k = a THEN x[b] ELSE IF k = b THEN x[a] ELSE x[k]]

\* the loop of shuffle from position i down: j = random_interval(i)
RECURSIVE ShuffleFrom(_, _, _, _)
ShuffleFrom(x, raw, place, i) ==
    IF i < 2 THEN x
    ELSE ShuffleFrom(Exchanged(x, i, (RawAt(raw, place) % i) + 1), raw,
                     place + 1, i - 1)

\* rng.shuffle(x) for the generator at a place of its stream: the array
\* after it and the place of the generator after it
shuffle(x, raw, place) ==
    [array |-> ShuffleFrom(x, raw, place, Len(x)),
     place |-> IF Len(x) < 2 THEN place ELSE place + Len(x) - 1]

\* a mutant of choice: the whole permutation, whatever the size asked for
choice_Whole(a, size, raw, place) == Ok(shuffle(a, raw, place))
\* rng.choice(a, size=size, replace=False)
choice(a, size, raw, place) ==
    IF size > Len(a)
    THEN Raise("ValueError")
    ELSE Ok([array |-> SubSeq(shuffle(a, raw, place).array, 1, size),
             place |-> shuffle(a, raw, place).place])

\* np.where(y == c)[0]: the positions of the class c, ascending
RECURSIVE Where(_, _, _)
Where(y, c, k) ==
    IF k > Len(y) THEN <<>>
    ELSE (IF y[k] = c THEN <<k>> ELSE <<>>) \o Where(y, c, k + 1)

\* counts.min() of np.unique(y, return_counts=True)
MinCount(y) ==
    Only({n \in {Len(Where(y, c, 1)) : c \in {y[k] : k \in DOMAIN y}} :
            \A c \in {y[k] : k \in DOMAIN y} : n <= Len(Where(y, c, 1))})

\* X[sampled_indices], y[sampled_indices]
Taken(array, sampled_indices) ==
    [k \in DOMAIN sampled_indices |-> array[sampled_indices[k]]]

\* the call for the generator whose stream gives the numbers raw
Undersample(X, y, raw) ==
    IF Cardinality({y[k] : k \in DOMAIN y}) # 2
    THEN Raise("ValueError")
    ELSE Only({
        IF sampled_0.status # "ok" THEN sampled_0
        ELSE Only({
            IF sampled_1.status # "ok" THEN sampled_1
            ELSE Only({Ok([X |-> Taken(X, sampled_indices.array),
                           y |-> Taken(y, sampled_indices.array)])
                        : sampled_indices \in
                              {shuffle(sampled_0.value.array
                                           \o sampled_1.value.array,
                                       raw, sampled_1.value.place)}})
              : sampled_1 \in {choice(Where(y, 1, 1), MinCount(y), raw,
                                      sampled_0.value.place)}})
          : sampled_0 \in {choice(Where(y, 0, 1), MinCount(y), raw, 1)}})

\* the numbers of one period of a stream
RawStreams ==
    {<<0, 0, 0, 0, 0>>, <<1, 2, 0, 3, 1>>, <<2, 1, 3, 0, 2>>,
     <<3, 3, 1, 2, 0>>}

\* label arrays: of the classes 0 and 1, of one class, of three classes,
\* and of two classes that are not 0 and 1
UndersampleLabels ==
    SeqsUpTo({0, 1}, 4)
        \cup {<<0, 0, 1, 1, 1>>, <<1, 0, 0, 0, 1>>, <<0, 1, 2>>,
              <<1, 2, 2>>, <<0, 2>>}

\* feature matrices of n samples: rows that all differ, or rows that are
\* equal in pairs
UndersampleMatrices(n) ==
    {[k \in 1..n |-> <<k>>], [k \in 1..n |-> <<k \div 2>>]}

undersample_majority_class(X, y, random_state, streams) ==
    Undersample(X, y, streams[RandomState(random_state)])

InitUndersampling ==
    /\ MemoryIdle
    /\ pc = "undersample"
    /\ \E y \in UndersampleLabels, s \in Seeds,
          streams \in [Streams -> RawStreams] :
          \E X \in UndersampleMatrices(Len(y)) :
              request = [X |-> X, y |-> y, random_state |-> s,
                         streams |-> streams]
    /\ result = NoResult /\ again = NoResult
    /\ tie_order = <<>> /\ np_random = 0
    /\ ThresholdIdle /\ EvaluationIdle /\ PreprocessingIdle

UndersampleFirst ==
    /\ pc = "undersample"
    /\ result' = undersample_majority_class(request.X, request.y,
                     request.random_state, request.streams)
    /\ pc' = "undersample_again"
    /\ UNCHANGED <<field, values, encoded, codes, decoded, y_true, y_proba,
                   threshold, optimal, evaluated, y_pred, confusion,
                   confidence, request, again, tie_order, np_random, heap,
                   frame>>

\* a second call with the same arguments
UndersampleAgain ==
    /\ pc = "undersample_again"
    /\ again' = undersample_majority_class(request.X, request.y,
                    request.random_state, request.streams)
    /\ pc' = "done"
    /\ UNCHANGED <<field, values, encoded, codes, decoded, y_true, y_proba,
                   threshold, optimal, evaluated, y_pred, confusion,
                   confidence, request, result, tie_order, np_random, heap,
                   frame>>

NextUndersampling == UndersampleFirst \/ UndersampleAgain

SpecUndersampling == InitUndersampling /\ [][NextUndersampling]_vars

\* the size of the smaller of the classes 0 and 1
SmallerClass(y) ==
    IF Len(Where(y, 0, 1)) <= Len(Where(y, 1, 1))
    THEN Len(Where(y, 0, 1)) ELSE Len(Where(y, 1, 1))

\* C30: for labels of exactly the classes 0 and 1 the call returns m
\* samples of each class, m the size of the smaller class; the returned
\* (row, label) pairs are input samples at 2m different positions of the
\* input; a second call with the same random_state returns the same;
\* labels whose number of distinct values is not two raise an error.
C30_BalancedSampleOfInput ==
    pc = "done" =>
        /\ again = result
        /\ {request.y[k] : k \in DOMAIN request.y} = {0, 1}
              => /\ result.status = "ok"
                 /\ Len(Where(result.value.y, 0, 1)) = SmallerClass(request.y)
                 /\ Len(Where(result.value.y, 1, 1)) = SmallerClass(request.y)
                 /\ Len(result.value.y) = 2 * SmallerClass(request.y)
                 /\ Len(result.value.X) = 2 * SmallerClass(request.y)
                 /\ \E taken \in [DOMAIN result.value.y -> DOMAIN request.y] :
                       /\ \A a, b \in DOMAIN taken :
                             taken[a] = taken[b] => a = b
                       /\ \A a \in DOMAIN taken :
                             /\ result.value.X[a] = request.X[taken[a]]
                             /\ result.value.y[a] = request.y[taken[a]]
        /\ Cardinality({request.y[k] : k \in DOMAIN request.y}) # 2
              => result.status = "raised" /\ result.error = "ValueError"

C30_Witness ==
    /\ pc = "done"
    /\ request.y = <<0, 0, 1, 1, 1>>
    /\ request.X = << <<1>>, <<2>>, <<3>>, <<4>>, <<5>> >>
    /\ result.status = "ok"
    /\ result.value.X = << <<4>>, <<2>>, <<1>>, <<5>> >>
    /\ result.value.y = <<1, 0, 0, 1>>
    /\ again = result

---------------------------------------------------------------------------
(* Claims about the feature-selection methods *)

\* a result of a first call
Returned == pc \in {"selected", "done"} /\ result.status = "ok"

\* the number of features of the request
NFeatures ==
    IF request.method = "boruta" THEN Len(request.hit_counts)
    ELSE Len(request.scores)

\* the names of the entries of feature_scores flagged selected
Flagged(r) ==
    {r.feature_scores[k].feature_name :
        k \in {j \in DOMAIN r.feature_scores :
                    r.feature_scores[j].selected}}

\* the entry of feature i in feature_scores
EntryOf(r, i) ==
    Only({fs \in Elems(r.feature_scores) : fs.feature_name = i - 1})

\* the entries of feature_scores by feature
Entries(r) == Tabulated([i \in 1..NFeatures |-> EntryOf(r, i)])

\* C14: for every method and every valid input the result has
\* n_selected = len(selected_features) = the number of feature_scores
\* entries flagged selected, n_total = len(feature_names) =
\* len(feature_scores), and the names in selected_features are the names
\* of the flagged entries.
C14_CountsAgree ==
    Returned =>
        LET r == result.value
        IN  /\ r.n_selected = Len(r.selected_features)
            /\ r.n_selected =
                 Cardinality({k \in DOMAIN r.feature_scores :
                                r.feature_scores[k].selected})
            /\ r.n_total = NFeatures
            /\ r.n_total = Len(r.feature_scores)
            /\ Elems(r.selected_features) = Flagged(r)
            /\ Cardinality(Flagged(r)) = r.n_selected

C14_Witness ==
    /\ Returned /\ request.method = "tree_importance"
    /\ request.top_k = <<2>> /\ NFeatures = 3
    /\ result.value.n_selected = 2 /\ result.value.n_total = 3
    /\ Len(result.value.selected_features) = 2

TopKReturned ==
    /\ Returned /\ request.method \in {"tree_importance", "shap"}
    /\ request.top_k # <<>>

\* no unselected feature has a strictly higher score than a selected one
SelectedAreHighest(r) ==
    \A i, j \in 1..NFeatures :
        (Entries(r)[i].selected /\ ~Entries(r)[j].selected)
            => ~FGt(Entries(r)[j].score, Entries(r)[i].score)

\* C16 as claimed: with top_k given to tree-importance or SHAP selection,
\* for every top_k the parameter schema accepts exactly top_k features are
\* selected and no unselected feature has a strictly higher score than a
\* selected one.
C16_Original ==
    TopKReturned =>
        /\ result.value.n_selected = request.top_k[1]
        /\ SelectedAreHighest(result.value)

\* C16 as the code behaves: the schema accepts top_k up to 26 whatever the
\* number of features; min(top_k, N) features are selected and no
\* unselected feature has a strictly higher score than a selected one.
C16_TopKOrAll ==
    TopKReturned =>
        /\ result.value.n_selected =
                IF request.top_k[1] <= NFeatures THEN request.top_k[1]
                ELSE NFeatures
        /\ SelectedAreHighest(result.value)

C16_Witness ==
    /\ TopKReturned /\ request.method = "tree_importance"
    /\ request.top_k = <<TOP_K_MAX>> /\ NFeatures = 3
    /\ result.value.n_selected = 3

\* selection agrees with ranking: selected iff rank <= top_k
SelectedIffRanked(r) ==
    \A i \in 1..NFeatures :
        Entries(r)[i].selected <=> Entries(r)[i].rank <= request.top_k[1]

\* no feature ranked after the cut-off has the score of one ranked up to it
NoTieAtCutOff(r) ==
    \A i, j \in 1..NFeatures :
        (Entries(r)[i].rank <= request.top_k[1]
            /\ Entries(r)[j].rank > request.top_k[1])
        => Entries(r)[i].score # Entries(r)[j].score

\* C25 as claimed: under top_k selection (tree importance and SHAP) a
\* feature is flagged selected if and only if its rank is <= top_k, for
\* every score vector, tied scores at the cut-off included.
C25_Original == TopKReturned => SelectedIffRanked(result.value)

\* C25, what the code gives: a feature is flagged selected if and only if
\* its rank is <= top_k when no score is tied across the cut-off; the
\* selection takes the end of np.argsort(scores) and the ranking the start
\* of np.argsort(-scores), and the two order tied scores differently.
C25_AgreeWithoutCutOffTie ==
    (TopKReturned /\ NoTieAtCutOff(result.value))
        => SelectedIffRanked(result.value)

C25_Witness ==
    /\ TopKReturned /\ request.method = "shap"
    /\ request.top_k = <<1>>
    /\ request.scores = <<FOne, FDivInt(1, 4), FDivInt(1, 4)>>
    /\ Entries(result.value)[1].selected
    /\ Entries(result.value)[1].rank = 1

\* two WoE/IV calls on the same data that both returned
WoeIvTwice ==
    /\ pc = "done" /\ request.method = "woe_iv"
    /\ result.status = "ok" /\ again.outcome.status = "ok"

\* the scores and ranks of a result, by feature
ScoresOf(r) ==
    [i \in 1..NFeatures |->
        [score |-> Entries(r)[i].score, rank |-> Entries(r)[i].rank]]

\* C17: for the same data and n_bins and thresholds a <= b, every feature
\* selected with iv_threshold = b is selected with iv_threshold = a, so
\* n_selected(b) <= n_selected(a), and the IV scores are the same in both
\* results.
C17_MonotoneInThreshold ==
    WoeIvTwice =>
        LET at_b == result.value
            at_a == again.outcome.value
        IN  /\ ScoresOf(at_a) = ScoresOf(at_b)
            /\ FLe(again.changed, request.iv_threshold)
                  => /\ Elems(at_b.selected_features)
                            \subseteq Elems(at_a.selected_features)
                     /\ at_b.n_selected <= at_a.n_selected

C17_Witness ==
    /\ WoeIvTwice
    /\ FLt(again.changed, request.iv_threshold)
    /\ NFeatures = 3
    /\ result.value.n_selected = 1
    /\ again.outcome.value.n_selected = 2

\* a Boruta result
BorutaReturned == Returned /\ request.method = "boruta"

\* the features of a Boruta result with the status label s
WithStatus(r, s) ==
    {i \in 1..NFeatures : Entries(r)[i].metadata.status = s}

\* feature i is in the confirmed / in the rejected set of the request
InConfirmed(i) ==
    Confirmed(request.hit_counts[i],
              ThresholdHitsOf[request.n_iterations,
                              request.confidence_level])
InRejected(i) ==
    Rejected(request.hit_counts[i], RejectCutOf[request.n_iterations])

\* C18: in every Boruta result, for n_iterations in [20,500],
\* confidence_level in [0.8,0.99] and any hit counts, each feature has
\* exactly one status of confirmed, tentative and rejected, the confirmed
\* and rejected sets do not overlap, the status label of a feature matches
\* the sets, and n_confirmed + n_tentative + n_rejected = n_total.
C18_StatusPartition ==
    BorutaReturned =>
        LET r == result.value
            m == r.method_metadata
        IN  /\ \A i \in 1..NFeatures :
                  /\ ~(InConfirmed(i) /\ InRejected(i))
                  /\ Entries(r)[i].metadata.status
                        = IF InConfirmed(i) THEN "confirmed"
                          ELSE IF InRejected(i) THEN "rejected"
                          ELSE "tentative"
            /\ m.n_confirmed = Cardinality(WithStatus(r, "confirmed"))
            /\ m.n_tentative = Cardinality(WithStatus(r, "tentative"))
            /\ m.n_rejected = Cardinality(WithStatus(r, "rejected"))
            /\ m.n_confirmed + m.n_tentative + m.n_rejected = r.n_total

C18_Witness ==
    /\ BorutaReturned /\ NFeatures = 3
    /\ request.n_iterations = N_ITERATIONS_MAX
    /\ request.hit_counts[1] = 49
    /\ result.value.method_metadata.n_confirmed = 1
    /\ result.value.method_metadata.n_tentative = 1
    /\ result.value.method_metadata.n_rejected = 1
    /\ Entries(result.value)[1].metadata.status = "rejected"

\* two Boruta calls on the same data that both returned
BorutaTwice ==
    /\ pc = "done" /\ request.method = "boruta"
    /\ result.status = "ok" /\ again.outcome.status = "ok"

\* the selection of a Boruta result is the confirmed features, and the
\* tentative ones when include_tentative
SelectionByStatus(r, include_tentative) ==
    /\ Elems(r.selected_features) =
            {i - 1 : i \in WithStatus(r, "confirmed")
                        \cup (IF include_tentative
                              THEN WithStatus(r, "tentative") ELSE {})}
    /\ \A i \in 1..NFeatures :
            Entries(r)[i].selected <=> (i - 1) \in Elems(r.selected_features)

\* C19: for the same data, seed, n_iterations and confidence_level, Boruta
\* with include_tentative = True selects a superset of what it selects
\* with include_tentative = False; the selection is the confirmed
\* features, plus the tentative ones when include_tentative, and no
\* rejected feature is selected.
C19_TentativeSuperset ==
    BorutaTwice =>
        LET incl == IF request.include_tentative THEN result.value
                    ELSE again.outcome.value
            excl == IF request.include_tentative
                       THEN again.outcome.value ELSE result.value
        IN  /\ Elems(excl.selected_features)
                    \subseteq Elems(incl.selected_features)
            /\ excl.n_selected <= incl.n_selected
            /\ SelectionByStatus(incl, TRUE)
            /\ SelectionByStatus(excl, FALSE)
            /\ \A i \in WithStatus(incl, "rejected") :
                    /\ ~Entries(incl)[i].selected
                    /\ ~Entries(excl)[i].selected

C19_Witness ==
    /\ BorutaTwice /\ NFeatures = 3
    /\ ~request.include_tentative
    /\ result.value.n_selected = 1
    /\ again.outcome.value.n_selected = 2
    /\ result.value.method_metadata.n_rejected = 1

---------------------------------------------------------------------------
(* The groups of callers together *)

Init ==
    \/ InitPreprocessing \/ InitThreshold \/ InitEvaluation
    \/ InitEvaluateModel \/ InitFeatureSelection \/ InitDispatch
    \/ InitInformationValue \/ InitDeterminism \/ InitBorutaLoop \/ InitExpansion
    \/ InitUndersampling
Next ==
    \/ NextPreprocessing \/ NextThreshold \/ NextEvaluation
    \/ NextEvaluateModel \/ NextFeatureSelection \/ NextDispatch
    \/ NextInformationValue \/ NextDeterminism \/ NextBorutaLoop
    \/ NextExpansion \/ NextUndersampling
Spec == Init /\ [][Next]_vars

============================================================================
